---- MODULE Spec2Model ----
(***************************************************************************)
(* State-machine model of the BTC monitor front end: the prediction        *)
(* manager (usePredictions and the panels that drive it), the alert list   *)
(* (useAlerts), the rule scan of AlertMonitor and the pure scoring          *)
(* functions of prediction.ts.                                             *)
(*                                                                         *)
(* Numbers.  Percentages (predictedChange, actualChange, error) are fixed  *)
(* point, in thousandths of a percent; prices and counts are integers;     *)
(* signal weights are hundredths.  Times are seconds.                      *)
(***************************************************************************)
EXTENDS Integers, Sequences, FiniteSets, TLC

VARIABLES
    now,            \* Math.floor(Date.now() / 1000)
    predictions,    \* usePredictions: the hook's list, one per mounted hook instance
    storage,        \* localStorage['btc_monitor_predictions']
    nextUid,        \* serial of the next Prediction object created
    alerts,         \* useAlerts: the alert list
    alertStorage,   \* localStorage['btc_monitor_alerts']
    toasts,         \* useAlerts: the toast feed
    toastTimers,    \* useAlerts: toastTimers.current, alert id -> pending timeout
    nextAlertId,    \* serial standing for `${Date.now()}-${random}` of the next alert
    cSignals,       \* aggregateSignals: the signals argument
    cBase,          \* adjustConfidence: the baseConfidence argument
    cHist,          \* adjustConfidence: the historicalAccuracy argument
    cResult,        \* what aggregateSignals returned
    cAdjusted,      \* what adjustConfidence returned
    cAccuracy,      \* what getAccuracy returned
    cExplained,     \* what generateResolutionExplanation returned, and for what
    cIndicator,     \* what calcSMA or calcEMA returned, and for what
    prices,         \* predictPrice: the prices argument
    exchangeNetflow,\* predictPrice: the exchangeNetflow argument
    mounted,        \* per panel: the component is mounted
    generating,     \* per panel: the `generating` state
    genPasses,      \* generation passes awaiting their fetches
    polls,          \* resolve polls awaiting their fetches
    nextPass,       \* serial of the next pass or poll started
    nextGenAt,      \* per panel: when the generation interval fires next
    mountHist,      \* per panel: getHistAcc as the mount-time closure computes it
    countdown,      \* per panel: the `countdown` state
    dataRef,        \* PredictionDashboard: dataRef.current
    lastPoll,       \* the resolve poll that completed last, with what it fetched
    lastGen,        \* the generation pass that completed last, with what it fetched
    monitorMounted, \* AlertMonitor is mounted
    scanning,       \* AlertMonitor: the `scanning` state
    scans,          \* runScan passes awaiting their fetches
    rules,          \* AlertMonitor: the `rules` state
    nextScanAt,     \* when the scan interval fires next
    prevHolders,    \* prevHoldersRef.current (addresses)
    feeHistory,     \* feeHistoryRef.current
    checkedAddrs,   \* checkedAddrsRef.current
    scanned         \* the runScan pass that completed last, with what it fetched

predVars == <<predictions, storage, nextUid>>
alertVars == <<alerts, alertStorage, toasts, toastTimers, nextAlertId>>
confVars == <<cSignals, cBase, cHist, cResult, cAdjusted, cAccuracy, cExplained, cIndicator, prices, exchangeNetflow>>
panelVars == <<mounted, generating, genPasses, polls, nextPass, nextGenAt, mountHist, countdown, dataRef, lastPoll, lastGen>>
scanVars == <<monitorMounted, scanning, scans, rules, nextScanAt, prevHolders, feeHistory, checkedAddrs, scanned>>
vars == <<now, predVars, alertVars, confVars, panelVars, scanVars>>

(***************************************************************************)
(* Bounds of the model.                                                    *)
(***************************************************************************)
MaxSeconds == 1      \* one-second clock steps taken within a period
MaxPeriods == 1      \* whole periods the clock is advanced by
MaxAdds == 2         \* Prediction objects created in a run
MaxAlertAdds == 2    \* alerts created in a run
MaxToastPeriods == 1 \* toast display periods the clock is advanced by
MaxPasses == 3       \* generation passes and resolve polls started in a run
MaxScans == 2        \* scans started in one lifetime of the alert monitor
MaxToastAdds == 6    \* alerts added while the toast feed is watched
MaxToastClock == 5   \* seconds the clock of the toast feed runs
MaxWhaleScans == 3   \* scans started while the holders are watched
MaxSeriesLen == 4    \* length of the series calcSMA and calcEMA are called on

(***************************************************************************)
(* JavaScript values of optional or possibly non-finite fields.            *)
(***************************************************************************)
NaN == [t |-> "NaN", v |-> 0]
Undefined == [t |-> "undefined", v |-> 0]
Null == [t |-> "null", v |-> 0]
Infinity == [t |-> "Infinity", v |-> 0]
Num(n) == [t |-> "number", v |-> n]
Bool(b) == [t |-> "boolean", v |-> IF b THEN 1 ELSE 0]

Abs(x) == IF x < 0 THEN -x ELSE x
Min(a, b) == IF a < b THEN a ELSE b
Max(a, b) == IF a > b THEN a ELSE b

\* Array.prototype.slice(0, n)
Take(s, n) == SubSeq(s, 1, Min(Len(s), n))

(***************************************************************************)
(* JSON.stringify / JSON.parse of one field value: a non-finite number is  *)
(* written as null; a field holding undefined is left out of the text and  *)
(* reads back as undefined.                                                *)
(***************************************************************************)
JSONValue(x) == IF x.t \in {"Infinity", "NaN"} THEN Null ELSE x

(***************************************************************************)
(* localStorage items: no item, a text that is a JSON array, or a text     *)
(* JSON.parse rejects.                                                     *)
(***************************************************************************)
NoItem == [kind |-> "none", items |-> <<>>]
BadText == [kind |-> "unparseable", items |-> <<>>]
ArrayText(items) == [kind |-> "array", items |-> items]

(***************************************************************************)
(* usePredictions (src/src/hooks/usePredictions.ts).                       *)
(***************************************************************************)
MAX_PREDICTIONS == 500

\* The hook instances of the page: the App-level one (feeding the
\* PredictionDashboard), the one of a TimeframeCard and the one of an
\* EmbeddedPredictionPanel.  All share STORAGE_KEY.
Hooks == {"app", "tf", "emb"}

Directions == {"up", "down", "neutral"}

\* A Prediction object as the generation paths build it: resolved false and
\* the result fields not yet set.  uid is the identity of the object.
NewPrediction(uid, prefix, createdAt, seconds, target, timeframe, direction, currentValue, predictedChange, confidence) ==
    [uid |-> uid,
     id |-> [prefix |-> prefix, ts |-> createdAt],
     createdAt |-> createdAt,
     targetTime |-> createdAt + seconds,
     target |-> target,
     timeframe |-> timeframe,
     direction |-> direction,
     currentValue |-> currentValue,
     predictedChange |-> predictedChange,
     confidence |-> confidence,
     resolved |-> FALSE,
     actualValue |-> Undefined,
     actualChange |-> Undefined,
     accurate |-> Undefined,
     error |-> Undefined]

\* JSON.stringify followed by JSON.parse of one Prediction.
JSONPrediction(p) ==
    [p EXCEPT !.actualValue = JSONValue(@), !.actualChange = JSONValue(@),
              !.accurate = JSONValue(@), !.error = JSONValue(@)]

\* loadPredictions: the parsed item, [] when there is none or parsing throws.
loadPredictions(item) ==
    IF item.kind = "array" THEN item.items ELSE <<>>

\* The text savePredictions hands to localStorage.setItem.
savePredictionsText(list) ==
    ArrayText([i \in 1..Min(Len(list), MAX_PREDICTIONS) |-> JSONPrediction(list[i])])

\* savePredictions: setItem may throw (quota exceeded); the catch swallows it
\* and the item keeps its previous text.
savePredictions(list, ok) ==
    storage' = IF ok THEN savePredictionsText(list) ELSE storage

\* addPredictionList cutting the list one record too late.
addPredictionList_OffByOne(prev, prediction) ==
    Take(<<prediction>> \o prev, MAX_PREDICTIONS + 1)

\* The updater of addPrediction.
addPredictionList(prev, prediction) ==
    Take(<<prediction>> \o prev, MAX_PREDICTIONS)

\* (actualValue - currentValue) / currentValue * 100, in thousandths of a percent.
\* The quotient is taken in two steps, to stay within TLC's integers.
actualChangeOf(p, actualValue) ==
    IF p.currentValue # 0
    THEN LET hundredfold == (actualValue - p.currentValue) * 100
         IN  (hundredfold \div p.currentValue) * 1000
                + ((hundredfold % p.currentValue) * 1000) \div p.currentValue
    ELSE 0

directionCorrect(p, actualChange) ==
    \/ p.direction = "up" /\ actualChange > 0
    \/ p.direction = "down" /\ actualChange < 0
    \/ p.direction = "neutral" /\ Abs(actualChange) < 100

\* resolveOne without the guard on p.resolved.
resolveOne_NoGuard(p, id, actualValue) ==
    IF p.id # id THEN p
    ELSE [p EXCEPT !.resolved = TRUE,
                   !.actualValue = Num(actualValue),
                   !.actualChange = Num(actualChangeOf(p, actualValue)),
                   !.accurate = Bool(directionCorrect(p, actualChangeOf(p, actualValue))),
                   !.error = Num(Abs(actualChangeOf(p, actualValue) - p.predictedChange))]

\* resolveOne flipping the flag instead of setting it.
resolveOne_Toggle(p, id, actualValue) ==
    IF p.id # id THEN p
    ELSE [p EXCEPT !.resolved = ~p.resolved,
                   !.actualValue = Num(actualValue)]

\* resolveOne with the error left signed.
resolveOne_SignedError(p, id, actualValue) ==
    IF p.id # id \/ p.resolved THEN p
    ELSE [p EXCEPT !.resolved = TRUE,
                   !.actualValue = Num(actualValue),
                   !.actualChange = Num(actualChangeOf(p, actualValue)),
                   !.accurate = Bool(directionCorrect(p, actualChangeOf(p, actualValue))),
                   !.error = Num(actualChangeOf(p, actualValue) - p.predictedChange)]

\* The body of the map in resolvePrediction.
resolveOne(p, id, actualValue) ==
    IF p.id # id \/ p.resolved THEN p
    ELSE [p EXCEPT !.resolved = TRUE,
                   !.actualValue = Num(actualValue),
                   !.actualChange = Num(actualChangeOf(p, actualValue)),
                   !.accurate = Bool(directionCorrect(p, actualChangeOf(p, actualValue))),
                   !.error = Num(Abs(actualChangeOf(p, actualValue) - p.predictedChange))]

\* The updater of resolvePrediction.
resolvePredictionList(prev, id, actualValue) ==
    [i \in 1..Len(prev) |-> resolveOne(prev[i], id, actualValue)]

\* addPrediction(prediction) of hook h.
addPrediction(h, prediction, ok) ==
    /\ predictions' = [predictions EXCEPT ![h] = addPredictionList(@, prediction)]
    /\ savePredictions(addPredictionList(predictions[h], prediction), ok)

\* resolvePrediction(id, actualValue) of hook h.
resolvePrediction(h, id, actualValue, ok) ==
    /\ predictions' = [predictions EXCEPT ![h] = resolvePredictionList(@, id, actualValue)]
    /\ savePredictions(resolvePredictionList(predictions[h], id, actualValue), ok)

\* clearHistory() of hook h.
clearHistory(h, ok) ==
    /\ predictions' = [predictions EXCEPT ![h] = <<>>]
    /\ savePredictions(<<>>, ok)

activeOf(list) == SelectSeq(list, LAMBDA p : ~p.resolved)
resolvedOf(list) == SelectSeq(list, LAMBDA p : p.resolved)

(***************************************************************************)
(* useAlerts (src/src/hooks/useAlerts.ts).  An alert's message is text     *)
(* formatted from the same numbers as data and is left out; data is        *)
(* reduced to the one number of it that the call site computes by a        *)
(* division.                                                               *)
(***************************************************************************)
MAX_ALERTS == 200
MAX_TOASTS == 5
ToastTimeoutMs == 5000

JSONAlert(a) == [a EXCEPT !.data = JSONValue(@)]

loadAlerts(item) ==
    IF item.kind = "array" THEN item.items ELSE <<>>

saveAlertsText(list) ==
    ArrayText([i \in 1..Min(Len(list), MAX_ALERTS) |-> JSONAlert(list[i])])

saveAlerts(list, ok) ==
    alertStorage' = IF ok THEN saveAlertsText(list) ELSE alertStorage

\* The Alert object addAlert builds.
NewAlert(id, severity, category, title, data) ==
    [id |-> id, timestamp |-> now, severity |-> severity, category |-> category,
     title |-> title, data |-> data, read |-> FALSE]

\* addAlertList cutting the list one record too late.
addAlertList_OffByOne(prev, alert) ==
    Take(<<alert>> \o prev, MAX_ALERTS + 1)

\* The updater of setAlerts in addAlert.
addAlertList(prev, alert) ==
    Take(<<alert>> \o prev, MAX_ALERTS)

\* markReadList dropping the alert instead of flagging it.
markReadList_Drop(prev, id) ==
    SelectSeq(prev, LAMBDA a : a.id # id)

\* The updater of markRead.
markReadList(prev, id) ==
    [i \in 1..Len(prev) |-> IF prev[i].id = id THEN [prev[i] EXCEPT !.read = TRUE] ELSE prev[i]]

\* markAllReadList flagging the newest alert only.
markAllReadList_Newest(prev) ==
    [i \in 1..Len(prev) |-> IF i = 1 THEN [prev[i] EXCEPT !.read = TRUE] ELSE prev[i]]

\* The updater of markAllRead.
markAllReadList(prev) ==
    [i \in 1..Len(prev) |-> [prev[i] EXCEPT !.read = TRUE]]

unreadCount == Cardinality({i \in 1..Len(alerts) : ~alerts[i].read})

\* addAlert(severity, category, title, message, data): the list, the item,
\* the toast feed and the toast's timeout.
addAlert(severity, category, title, data, ok) ==
    LET alert == NewAlert(nextAlertId, severity, category, title, data) IN
    /\ alerts' = addAlertList(alerts, alert)
    /\ saveAlerts(addAlertList(alerts, alert), ok)
    /\ toasts' = Take(<<alert>> \o toasts, MAX_TOASTS)
    /\ toastTimers' = toastTimers \cup
                        {[id |-> alert.id, due |-> now + ToastTimeoutMs \div 1000]}
    /\ nextAlertId' = nextAlertId + 1

markRead(id, ok) ==
    /\ alerts' = markReadList(alerts, id)
    /\ saveAlerts(markReadList(alerts, id), ok)
    /\ UNCHANGED <<toasts, toastTimers, nextAlertId>>

markAllRead(ok) ==
    /\ alerts' = markAllReadList(alerts)
    /\ saveAlerts(markAllReadList(alerts), ok)
    /\ UNCHANGED <<toasts, toastTimers, nextAlertId>>

clearAll(ok) ==
    /\ alerts' = <<>>
    /\ saveAlerts(<<>>, ok)
    /\ UNCHANGED <<toasts, toastTimers, nextAlertId>>

dismissToast(id) ==
    /\ toasts' = SelectSeq(toasts, LAMBDA t : t.id # id)
    /\ toastTimers' = {tm \in toastTimers : tm.id # id}
    /\ UNCHANGED <<alerts, alertStorage, nextAlertId>>

\* The timeout's callback taking the alert off the list as well.
toastTimeout_DropsAlert(tm) ==
    /\ toasts' = SelectSeq(toasts, LAMBDA t : t.id # tm.id)
    /\ toastTimers' = toastTimers \ {tm}
    /\ alerts' = SelectSeq(alerts, LAMBDA a : a.id # tm.id)
    /\ UNCHANGED <<alertStorage, nextAlertId>>

\* The callback of the setTimeout of addAlert.
toastTimeout(tm) ==
    /\ toasts' = SelectSeq(toasts, LAMBDA t : t.id # tm.id)
    /\ toastTimers' = toastTimers \ {tm}
    /\ UNCHANGED <<alerts, alertStorage, nextAlertId>>

\* A list an earlier session saved: n unread alerts, the most recent first.
SavedAlerts(n) ==
    [i \in 1..n |->
        [id |-> 1 - i, timestamp |-> -i, severity |-> "critical",
         category |-> "new_whale_top100", title |-> "new whale",
         data |-> Num(5000), read |-> FALSE]]

\* The alert hook as the page opens.
AlertInit(items) ==
    /\ alertStorage \in items
    /\ alerts = loadAlerts(alertStorage)
    /\ toasts = <<>>
    /\ toastTimers = {}
    /\ nextAlertId = 1

(***************************************************************************)
(* Signal aggregation and confidence adjustment (src/src/prediction.ts).   *)
(* Weights are in hundredths; a signal is its direction and weight.        *)
(***************************************************************************)
\* Math.round(n / d) for d > 0: the nearest integer, a half rounded up.
RoundDiv(n, d) == (2 * n + d) \div (2 * d)

NoResult == [direction |-> "none", change |-> 0, confidence |-> 0]

NoAccuracy == [target |-> "none", totalPredictions |-> 0, correctPredictions |-> 0,
               accuracy |-> 0, avgError |-> 0, last24hAccuracy |-> 0]

NoExplained == [called |-> FALSE]

NoIndicator == [called |-> FALSE]

RECURSIVE WeightOf(_, _)
\* The sum the loop of aggregateSignals accumulates over the signals whose
\* direction is in dirs.
WeightOf(signals, dirs) ==
    IF signals = <<>> THEN 0
    ELSE (IF Head(signals).direction \in dirs THEN Head(signals).weight ELSE 0)
            + WeightOf(Tail(signals), dirs)

\* aggregateSignals with the change of a neutral result left at changeBase.
aggregateSignals_ChangeKept(signals) ==
    IF Len(signals) = 0 THEN [direction |-> "neutral", change |-> 0, confidence |-> 15]
    ELSE
    LET upWeight == WeightOf(signals, {"up"})
        downWeight == WeightOf(signals, {"down"})
        totalWeight == WeightOf(signals, Directions)
        direction == IF 10 * upWeight > 12 * downWeight THEN "up"
                     ELSE IF 10 * downWeight > 12 * upWeight THEN "down" ELSE "neutral"
        dominantWeight == Max(upWeight, downWeight)
        confidence == IF totalWeight > 0
                      THEN Min(85, Max(15, RoundDiv(dominantWeight * 70 + 15 * totalWeight, totalWeight)))
                      ELSE 15
        changeBase == IF totalWeight > 0 THEN (1000 * dominantWeight) \div totalWeight - 500 ELSE -500
    IN  [direction |-> direction,
         change |-> IF direction = "down" THEN -changeBase ELSE changeBase,
         confidence |-> confidence]

\* aggregateSignals with totalWeight summed over the up and down signals only.
aggregateSignals_NoNeutralWeight(signals) ==
    IF Len(signals) = 0 THEN [direction |-> "neutral", change |-> 0, confidence |-> 15]
    ELSE
    LET upWeight == WeightOf(signals, {"up"})
        downWeight == WeightOf(signals, {"down"})
        totalWeight == WeightOf(signals, {"up", "down"})
        direction == IF 10 * upWeight > 12 * downWeight THEN "up"
                     ELSE IF 10 * downWeight > 12 * upWeight THEN "down" ELSE "neutral"
        dominantWeight == Max(upWeight, downWeight)
        confidence == IF totalWeight > 0
                      THEN Min(85, Max(15, RoundDiv(dominantWeight * 70 + 15 * totalWeight, totalWeight)))
                      ELSE 15
        changeBase == IF totalWeight > 0 THEN (1000 * dominantWeight) \div totalWeight - 500 ELSE -500
    IN  [direction |-> direction,
         change |-> IF direction = "up" THEN changeBase
                    ELSE IF direction = "down" THEN -changeBase ELSE 0,
         confidence |-> confidence]

\* aggregateSignals(signals, currentValue): direction, change (thousandths of
\* a percent) and confidence.
aggregateSignals(signals) ==
    IF Len(signals) = 0 THEN [direction |-> "neutral", change |-> 0, confidence |-> 15]
    ELSE
    LET upWeight == WeightOf(signals, {"up"})
        downWeight == WeightOf(signals, {"down"})
        totalWeight == WeightOf(signals, Directions)
        direction == IF 10 * upWeight > 12 * downWeight THEN "up"
                     ELSE IF 10 * downWeight > 12 * upWeight THEN "down" ELSE "neutral"
        dominantWeight == Max(upWeight, downWeight)
        \* agreement * 70 + 15, as the fraction over totalWeight
        confidence == IF totalWeight > 0
                      THEN Min(85, Max(15, RoundDiv(dominantWeight * 70 + 15 * totalWeight, totalWeight)))
                      ELSE 15
        \* (agreement - 0.5) * 2 * 0.5
        changeBase == IF totalWeight > 0 THEN (1000 * dominantWeight) \div totalWeight - 500 ELSE -500
    IN  [direction |-> direction,
         change |-> IF direction = "up" THEN changeBase
                    ELSE IF direction = "down" THEN -changeBase ELSE 0,
         confidence |-> confidence]

\* adjustConfidence(baseConfidence, historicalAccuracy) on JavaScript numbers;
\* historicalAccuracy in thousandths of a percent.  Math.round, Math.max and
\* Math.min return NaN when an argument is NaN.
adjustConfidence(baseConfidence, historicalAccuracy) ==
    IF baseConfidence.t = "NaN" \/ historicalAccuracy.t = "NaN" THEN NaN
    ELSE Num(Min(85, Max(15, RoundDiv(baseConfidence.v * (100000 + historicalAccuracy.v), 200000))))

\* The weights the predictors of prediction.ts give their signals:
\* predictPrice without and with the netflow signal, predictTxVolume,
\* predictWhaleMovement, predictLargeTx.
PredictorWeights ==
    { <<20, 20, 20, 15, 15>>, <<20, 20, 20, 15, 15, 10>>,
      <<40, 30, 30>>, <<35, 35, 30>>, <<40, 35, 25>> }

\* A list of two signals, one up and one down.
UpDown(upWeight, downWeight) ==
    << [direction |-> "up", weight |-> upWeight], [direction |-> "down", weight |-> downWeight] >>

\* The signal lists the predictors pass to aggregateSignals, and lists of an
\* up and a down signal of any weights.
SignalLists ==
    {<<>>} \cup { UpDown(60, 20), UpDown(30, 30), UpDown(24, 20), UpDown(20, 25) } \cup
    UNION { { [i \in 1..Len(w) |-> [direction |-> d[i], weight |-> w[i]]] :
                d \in [1..Len(w) -> Directions] } : w \in PredictorWeights }

\* Base confidences and historical accuracies as JavaScript numbers.
BaseInputs == {NaN, Num(-10), Num(50), Num(1000)}
HistInputs == {NaN, Num(0), Num(33333), Num(100000)}

\* The two functions not in use.
ConfIdle ==
    /\ cSignals = <<>>
    /\ cBase = Undefined
    /\ cHist = Undefined
    /\ cResult = NoResult
    /\ cAdjusted = Undefined
    /\ cAccuracy = NoAccuracy
    /\ cExplained = NoExplained
    /\ cIndicator = NoIndicator
    /\ prices = <<>>
    /\ exchangeNetflow = 0

Signal(direction, weight) == [direction |-> direction, weight |-> weight]

(***************************************************************************)
(* The technical indicators and predictPrice (src/src/prediction.ts).      *)
(* Their arithmetic is exact: a value is a fraction [n, d] in lowest terms *)
(* with d > 0, and NaN is the fraction with d = 0.  Prices are positive.   *)
(***************************************************************************)
RECURSIVE GCD(_, _)
GCD(a, b) == IF b = 0 THEN a ELSE GCD(b, a % b)

Rat(n, d) == LET g == GCD(Abs(n), d) IN [n |-> n \div g, d |-> d \div g]

NaNRat == [n |-> 0, d |-> 0]

isNaN(x) == x.d = 0

RatAdd(a, b) ==
    LET l == (a.d \div GCD(a.d, b.d)) * b.d
    IN  Rat(a.n * (l \div a.d) + b.n * (l \div b.d), l)

RatSub(a, b) == RatAdd(a, [n |-> -b.n, d |-> b.d])

\* a * p / q
RatScale(a, p, q) == Rat(a.n * p, a.d * q)

\* a < b
RatLess(a, b) == RatSub(a, b).n < 0

RECURSIVE SumRange(_, _, _)
\* data.slice(from - 1, to).reduce((a, b) => a + b, 0)
SumRange(data, from, to) ==
    IF from > to THEN 0 ELSE data[to] + SumRange(data, from, to - 1)

calcSMA(data, period) ==
    [i \in 1..Len(data) |->
        IF i < period THEN NaNRat ELSE Rat(SumRange(data, i - period + 1, i), period)]

\* data[1..i] is one value repeated.
Constant(data, i) == \A j \in 1..i : data[j] = data[1]

RECURSIVE EMAAt(_, _, _)
\* result[i] of calcEMA: data[0] first, then data[i] * k + result[i - 1] *
\* (1 - k) with k = 2 / (period + 1).  Over a constant run c the loop keeps
\* c * k + c * (1 - k) = c, which is returned without unfolding the loop.
EMAAt(data, period, i) ==
    IF Constant(data, i) THEN data[1]
    ELSE RatAdd(RatScale(data[i], 2, period + 1),
                RatScale(EMAAt(data, period, i - 1), period - 1, period + 1))

\* data[0] of an empty array: undefined.
UndefinedRat == [n |-> 0, d |-> -1]

\* calcEMA on a sequence of fractions.  The result starts as [data[0]],
\* whatever the length of data.
calcEMA(data, period) ==
    IF data = <<>> THEN <<UndefinedRat>>
    ELSE [i \in 1..Len(data) |-> EMAAt(data, period, i)]

\* 100 when avgLoss is 0, else 100 - 100 / (1 + avgGain / avgLoss).
RSIValue(avgGain, avgLoss) ==
    IF avgLoss.n = 0 THEN Rat(100, 1)
    ELSE LET sum == RatAdd(avgGain, avgLoss)
         IN  Rat(100 * avgGain.n * sum.d, avgGain.d * sum.n)

RECURSIVE SumDiffs(_, _, _)
\* The sum of the rises (sign 1) or of the falls (sign -1) of data up to
\* index i.
SumDiffs(data, i, sign) ==
    IF i < 2 THEN 0
    ELSE Max(0, sign * (data[i] - data[i - 1])) + SumDiffs(data, i - 1, sign)

RECURSIVE RSIAvg(_, _, _)
\* avgGain and avgLoss of calcRSI after the diff at index i: the first loop
\* up to index period + 1, the second loop after it.  Over a constant run
\* every diff is 0 and both averages stay 0.
RSIAvg(data, period, i) ==
    IF Constant(data, i) THEN [gain |-> Rat(0, 1), loss |-> Rat(0, 1)]
    ELSE IF i = period + 1
    THEN [gain |-> Rat(SumDiffs(data, period + 1, 1), period),
          loss |-> Rat(SumDiffs(data, period + 1, -1), period)]
    ELSE LET prev == RSIAvg(data, period, i - 1)
             diff == data[i] - data[i - 1]
         IN  [gain |-> Rat(prev.gain.n * (period - 1) + Max(0, diff) * prev.gain.d, prev.gain.d * period),
              loss |-> Rat(prev.loss.n * (period - 1) + Max(0, -diff) * prev.loss.d, prev.loss.d * period)]

calcRSI(data, period) ==
    [i \in 1..Len(data) |->
        IF Len(data) < period + 1 \/ i <= period THEN NaNRat
        ELSE LET avg == RSIAvg(data, period, i) IN RSIValue(avg.gain, avg.loss)]

calcMACD(data) ==
    LET series == [i \in 1..Len(data) |-> Rat(data[i], 1)]
        ema12 == calcEMA(series, 12)
        ema26 == calcEMA(series, 26)
        macdLine == [i \in 1..Len(data) |-> RatSub(ema12[i], ema26[i])]
        signalLine == calcEMA(macdLine, 9)
    IN  [macd |-> macdLine, signal |-> signalLine,
         histogram |-> [i \in 1..Len(data) |-> RatSub(macdLine[i], signalLine[i])]]

\* calcMomentum: ((v - data[i - period]) / data[i - period]) * 100.
calcMomentum(data, period) ==
    [i \in 1..Len(data) |->
        IF i <= period THEN NaNRat ELSE Rat((data[i] - data[i - period]) * 100, data[i - period])]

RECURSIVE SumSquares(_, _, _, _)
\* The sum over the window of (period * v - sum)^2, that is period^2 times
\* the reduce of calcBollingerBands.
SumSquares(data, from, to, sum) ==
    IF from > to THEN 0
    ELSE (20 * data[to] - sum) * (20 * data[to] - sum)
            + SumSquares(data, from, to - 1, sum)

\* The direction predictPrice reads off calcBollingerBands(prices, 20): with
\* bands mean -/+ 2 std, bbPos < 0.2 iff mean - last > 1.2 std and
\* bbPos > 0.8 iff last - mean > 1.2 std; bbPos is 0.5 when std is 0.  The
\* comparison is made on squares, scaled by 20^2 * 20 * 100.
BollingerDir(data) ==
    LET sum == SumRange(data, Len(data) - 19, Len(data))
        squares == SumSquares(data, Len(data) - 19, Len(data), sum)
        gap == 20 * data[Len(data)] - sum
    IN  IF squares = 0 THEN "neutral"
        ELSE IF gap < 0 /\ 2000 * gap * gap > 144 * squares THEN "up"
        ELSE IF gap > 0 /\ 2000 * gap * gap > 144 * squares THEN "down"
        ELSE "neutral"

\* The signals predictPrice pushes, in order.
PriceSignals(data, netflow) ==
    LET n == Len(data)
        sma5Last == calcSMA(data, 5)[n]
        sma20Last == calcSMA(data, 20)[n]
        rsiLast == calcRSI(data, 14)[n]
        histogram == calcMACD(data).histogram
        macdLast == histogram[n]
        macdPrev == histogram[n - 1]
        momLast == calcMomentum(data, 10)[n]
    IN  (IF ~isNaN(sma5Last) /\ ~isNaN(sma20Last)
         THEN << Signal(IF RatLess(sma20Last, sma5Last) THEN "up"
                        ELSE IF RatLess(sma5Last, sma20Last) THEN "down" ELSE "neutral", 20) >>
         ELSE <<>>)
        \o (IF ~isNaN(rsiLast)
            THEN << Signal(IF RatLess(rsiLast, Rat(30, 1)) THEN "up"
                           ELSE IF RatLess(Rat(70, 1), rsiLast) THEN "down" ELSE "neutral", 20) >>
            ELSE <<>>)
        \o (IF ~isNaN(macdLast) /\ ~isNaN(macdPrev)
            THEN << Signal(IF RatLess(macdPrev, macdLast) THEN "up"
                           ELSE IF RatLess(macdLast, macdPrev) THEN "down" ELSE "neutral", 20) >>
            ELSE <<>>)
        \o (IF ~isNaN(momLast)
            THEN << Signal(IF RatLess(Rat(1, 10), momLast) THEN "up"
                           ELSE IF RatLess(momLast, Rat(-1, 10)) THEN "down" ELSE "neutral", 15) >>
            ELSE <<>>)
        \o << Signal(BollingerDir(data), 15) >>
        \o (IF netflow # 0
            THEN << Signal(IF netflow > 0 THEN "down" ELSE "up", 10) >>
            ELSE <<>>)

predictPrice(data, netflow) ==
    IF Len(data) < 30 THEN [direction |-> "neutral", change |-> 0, confidence |-> 15]
    ELSE aggregateSignals(PriceSignals(data, netflow))

(***************************************************************************)
(* The predictors whose inputs are counts (src/src/prediction.ts).  A      *)
(* ratio is compared by cross-multiplication.                              *)
(***************************************************************************)
RECURSIVE SumSeq(_)
SumSeq(s) == IF s = <<>> THEN 0 ELSE Head(s) + SumSeq(Tail(s))

\* predictTxVolume(mempoolSizes, feeTrend, recentBlockTxCounts)
predictTxVolume(mempoolSizes, feeTrend, recentBlockTxCounts) ==
    LET mTrend == mempoolSizes[Len(mempoolSizes)] - mempoolSizes[Len(mempoolSizes) - 2]
        fTrend == feeTrend[Len(feeTrend)] - feeTrend[Len(feeTrend) - 2]
        n == Len(recentBlockTxCounts)
        sum == SumSeq(recentBlockTxCounts)
        last == recentBlockTxCounts[n]
    IN  aggregateSignals(
            (IF Len(mempoolSizes) >= 3
             THEN <<Signal(IF mTrend > 100 THEN "up" ELSE IF mTrend < -100 THEN "down" ELSE "neutral", 40)>>
             ELSE <<>>)
         \o (IF Len(feeTrend) >= 3
             THEN <<Signal(IF fTrend > 2 THEN "up" ELSE IF fTrend < -2 THEN "down" ELSE "neutral", 30)>>
             ELSE <<>>)
         \o (IF n >= 2
             THEN <<Signal(IF 10 * last * n > 11 * sum THEN "up"
                           ELSE IF 10 * last * n < 9 * sum THEN "down" ELSE "neutral", 30)>>
             ELSE <<>>))

\* predictWhaleMovement(recentWhaleTxCount, avgWhaleTxCount, exchangeDepositRatio,
\* dormantActivations), the ratio given as deposits over total.
predictWhaleMovement(recentWhaleTxCount, avgWhaleTxCount, deposits, total, dormantActivations) ==
    LET freqDir == IF avgWhaleTxCount > 0
                   THEN (IF 10 * recentWhaleTxCount > 13 * avgWhaleTxCount THEN "up"
                         ELSE IF 10 * recentWhaleTxCount < 7 * avgWhaleTxCount THEN "down"
                         ELSE "neutral")
                   ELSE "neutral"
        depDir == IF 10 * deposits > 6 * total THEN "up"
                  ELSE IF 10 * deposits < 4 * total THEN "down" ELSE "neutral"
        dormDir == IF dormantActivations > 0 THEN "up" ELSE "neutral"
    IN  aggregateSignals(<<Signal(freqDir, 35), Signal(depDir, 35), Signal(dormDir, 30)>>)

\* predictLargeTx(mempoolSize, avgMempoolSize, recentLargeTxRate, avgLargeTxRate)
predictLargeTx(mempoolSize, avgMempoolSize, recentLargeTxRate, avgLargeTxRate) ==
    LET mpDir == IF avgMempoolSize > 0
                 THEN (IF 10 * mempoolSize > 12 * avgMempoolSize THEN "up"
                       ELSE IF 10 * mempoolSize < 8 * avgMempoolSize THEN "down" ELSE "neutral")
                 ELSE "neutral"
        txDir == IF avgLargeTxRate > 0
                 THEN (IF 10 * recentLargeTxRate > 12 * avgLargeTxRate THEN "up"
                       ELSE IF 10 * recentLargeTxRate < 8 * avgLargeTxRate THEN "down" ELSE "neutral")
                 ELSE "neutral"
        trendDir == IF mempoolSize > 50000 THEN "up"
                    ELSE IF mempoolSize < 10000 THEN "down" ELSE "neutral"
    IN  aggregateSignals(<<Signal(mpDir, 40), Signal(txDir, 35), Signal(trendDir, 25)>>)

\* predictHolderTrend(totalHoldings, exchangeHoldings, nonExchangeHoldings,
\* exchangeRatio, recentNetflow), exchangeRatio being exchange over total.
predictHolderTrend(totalHoldings, exchangeHoldings, nonExchangeHoldings, recentNetflow) ==
    LET ratioDir == IF totalHoldings > 0 /\ 100 * exchangeHoldings > 25 * totalHoldings THEN "down"
                    ELSE IF totalHoldings <= 0 \/ 100 * exchangeHoldings < 15 * totalHoldings THEN "up"
                    ELSE "neutral"
        nonExDir == IF totalHoldings > 0
                    THEN (IF 10 * nonExchangeHoldings > 8 * totalHoldings THEN "up"
                          ELSE IF 10 * nonExchangeHoldings < 7 * totalHoldings THEN "down"
                          ELSE "neutral")
                    ELSE "down"
        flowDir == IF recentNetflow > 100 THEN "down"
                   ELSE IF recentNetflow < -100 THEN "up" ELSE "neutral"
    IN  aggregateSignals(<<Signal(ratioDir, 30), Signal(nonExDir, 30), Signal(flowDir, 40)>>)

(***************************************************************************)
(* getAccuracy (src/src/hooks/usePredictions.ts) and getHistAcc            *)
(* (src/unnamed/part_004), accuracies in thousandths of a percent.         *)
(***************************************************************************)
Targets == {"price", "tx_volume", "whale_movement", "large_tx"}

\* getAccuracy counting every resolved prediction among the last 24 hours'.
getAccuracy_NoWindow(list, t) ==
    LET resolved == SelectSeq(list, LAMBDA p : p.target = t /\ p.resolved)
        correct == SelectSeq(resolved, LAMBDA p : p.accurate = Bool(TRUE))
        errors == [i \in 1..Len(resolved) |->
                      IF resolved[i].error.t = "number" THEN resolved[i].error.v ELSE 0]
    IN  [target |-> t,
         totalPredictions |-> Len(resolved),
         correctPredictions |-> Len(correct),
         accuracy |-> IF Len(resolved) > 0 THEN (Len(correct) * 100000) \div Len(resolved) ELSE 0,
         avgError |-> IF Len(resolved) > 0 THEN SumSeq(errors) \div Len(resolved) ELSE 0,
         last24hAccuracy |-> IF Len(resolved) > 0
                             THEN (Len(correct) * 100000) \div Len(resolved) ELSE 0]

\* One element of getAccuracy(target): the record of target t.  p.error || 0
\* is 0 for an error that is not a number; the quotients are cut to
\* thousandths.
getAccuracy(list, t) ==
    LET resolved == SelectSeq(list, LAMBDA p : p.target = t /\ p.resolved)
        correct == SelectSeq(resolved, LAMBDA p : p.accurate = Bool(TRUE))
        last24h == SelectSeq(resolved, LAMBDA p : now - p.createdAt < 86400)
        last24hCorrect == SelectSeq(last24h, LAMBDA p : p.accurate = Bool(TRUE))
        errors == [i \in 1..Len(resolved) |->
                      IF resolved[i].error.t = "number" THEN resolved[i].error.v ELSE 0]
    IN  [target |-> t,
         totalPredictions |-> Len(resolved),
         correctPredictions |-> Len(correct),
         accuracy |-> IF Len(resolved) > 0 THEN (Len(correct) * 100000) \div Len(resolved) ELSE 0,
         avgError |-> IF Len(resolved) > 0 THEN SumSeq(errors) \div Len(resolved) ELSE 0,
         last24hAccuracy |-> IF Len(last24h) > 0
                             THEN (Len(last24hCorrect) * 100000) \div Len(last24h) ELSE 0]

getHistAcc(list, t) ==
    IF getAccuracy(list, t).totalPredictions > 5 THEN getAccuracy(list, t).accuracy ELSE 50000

(***************************************************************************)
(* generateResolutionExplanation (src/unnamed/part_006).  The texts it     *)
(* returns are kept as the values they are built from: the verdict, the    *)
(* change and the error, the band of the error, the names of the confirmed *)
(* and of the contradicted signals, the key factor.                        *)
(***************************************************************************)
Impacts == {"bullish", "bearish", "neutral"}

\* prediction.reasons.filter of correctSignals, as places in the array.
correctSignals(reasons, actualChange) ==
    SelectSeq([i \in 1..Len(reasons) |-> i],
              LAMBDA i : IF actualChange > 0 THEN reasons[i].impact = "bullish"
                         ELSE IF actualChange < 0 THEN reasons[i].impact = "bearish"
                         ELSE reasons[i].impact = "neutral")

\* wrongSignals counting every signal with a lean as wrong when nothing moved.
wrongSignals_LeanAtZero(reasons, actualChange) ==
    SelectSeq([i \in 1..Len(reasons) |-> i],
              LAMBDA i : IF actualChange > 0 THEN reasons[i].impact = "bearish"
                         ELSE IF actualChange < 0 THEN reasons[i].impact = "bullish"
                         ELSE reasons[i].impact # "neutral")

\* prediction.reasons.filter of wrongSignals, as places in the array.
wrongSignals(reasons, actualChange) ==
    SelectSeq([i \in 1..Len(reasons) |-> i],
              LAMBDA i : IF actualChange > 0 THEN reasons[i].impact = "bearish"
                         ELSE IF actualChange < 0 THEN reasons[i].impact = "bullish"
                         ELSE FALSE)

\* generateResolutionExplanation taking a change of exactly 0.1 for flat.
generateResolutionExplanation_FlatInclusive(prediction, actualValue) ==
    LET actualChange ==
            IF prediction.currentValue # 0
            THEN LET hundredfold == (actualValue - prediction.currentValue) * 100
                 IN  (hundredfold \div prediction.currentValue) * 1000
                        + ((hundredfold % prediction.currentValue) * 1000) \div prediction.currentValue
            ELSE 0
        dirCorrect ==
            \/ prediction.direction = "up" /\ actualChange > 0
            \/ prediction.direction = "down" /\ actualChange < 0
            \/ prediction.direction = "neutral" /\ Abs(actualChange) <= 100
        error == Abs(actualChange - prediction.predictedChange)
        listed == prediction.reasons.present /\ Len(prediction.reasons.items) > 0
    IN  [dirCorrect |-> dirCorrect,
         actualChange |-> actualChange,
         error |-> error,
         band |-> IF ~dirCorrect THEN "opposite"
                  ELSE IF error < 500 THEN "precise"
                  ELSE IF error < 2000 THEN "reasonable" ELSE "rough",
         confirmed |-> IF listed THEN correctSignals(prediction.reasons.items, actualChange) ELSE <<>>,
         contradicted |-> IF listed THEN wrongSignals(prediction.reasons.items, actualChange) ELSE <<>>,
         keyFactor |-> IF dirCorrect THEN (IF error < 1000 THEN "aligned" ELSE "volatile")
                       ELSE "reversed"]

generateResolutionExplanation(prediction, actualValue) ==
    LET actualChange ==
            IF prediction.currentValue # 0
            THEN LET hundredfold == (actualValue - prediction.currentValue) * 100
                 IN  (hundredfold \div prediction.currentValue) * 1000
                        + ((hundredfold % prediction.currentValue) * 1000) \div prediction.currentValue
            ELSE 0
        dirCorrect ==
            \/ prediction.direction = "up" /\ actualChange > 0
            \/ prediction.direction = "down" /\ actualChange < 0
            \/ prediction.direction = "neutral" /\ Abs(actualChange) < 100
        error == Abs(actualChange - prediction.predictedChange)
        listed == prediction.reasons.present /\ Len(prediction.reasons.items) > 0
    IN  [dirCorrect |-> dirCorrect,
         actualChange |-> actualChange,
         error |-> error,
         band |-> IF ~dirCorrect THEN "opposite"
                  ELSE IF error < 500 THEN "precise"
                  ELSE IF error < 2000 THEN "reasonable" ELSE "rough",
         confirmed |-> IF listed THEN correctSignals(prediction.reasons.items, actualChange) ELSE <<>>,
         contradicted |-> IF listed THEN wrongSignals(prediction.reasons.items, actualChange) ELSE <<>>,
         keyFactor |-> IF dirCorrect THEN (IF error < 1000 THEN "aligned" ELSE "volatile")
                       ELSE "reversed"]

(***************************************************************************)
(* The prediction panels: PredictionDashboard (src/unnamed/part_004) on    *)
(* the App-level hook "app", and the EmbeddedPredictionPanel               *)
(* (src/unnamed/part_002) that TopHolders mounts, on its own hook "emb".   *)
(* A fetch is its outcome; a pass or poll is in flight between its start   *)
(* and the step that completes it.                                         *)
(***************************************************************************)
\* A failed fetch, with the value its .catch() supplies.
Caught(v) == [ok |-> FALSE, v |-> v]
Failed == Caught(0)
Got(v) == [ok |-> TRUE, v |-> v]

NoPoll == [n |-> 0, panel |-> "none", expired |-> <<>>, ok |-> <<>>, value |-> <<>>]

NoGen == [n |-> 0, panel |-> "none", f |-> <<>>]

\* No panel mounted.
PanelIdle ==
    /\ mounted = [p \in Hooks |-> FALSE]
    /\ generating = [p \in Hooks |-> FALSE]
    /\ genPasses = {}
    /\ polls = {}
    /\ nextPass = 1
    /\ nextGenAt = [p \in Hooks |-> 0]
    /\ mountHist = [p \in Hooks |-> [t \in Targets |-> 50000]]
    /\ countdown = [p \in Hooks |-> IF p = "app" THEN 300 ELSE 0]
    /\ dataRef = [mempoolSizes |-> <<>>, feeTrend |-> <<>>, blockTxCounts |-> <<>>]
    /\ lastPoll = NoPoll
    /\ lastGen = NoGen

\* push, then shift when longer than 20
PushCapped(s, x) == IF Len(s) + 1 > 20 THEN Tail(Append(s, x)) ELSE Append(s, x)

\* The body of generatePredictions / generate after the guard: the flag is
\* set and the fetches are awaited.  hist is getHistAcc of the closure called.
startPass(p, hist) ==
    /\ generating' = [generating EXCEPT ![p] = TRUE]
    /\ genPasses' = genPasses \cup {[panel |-> p, n |-> nextPass, hist |-> hist]}
    /\ nextPass' = nextPass + 1

\* The lists after each of a sequence of addPrediction calls.
RECURSIVE AddedLists(_, _)
AddedLists(list, preds) ==
    IF preds = <<>> THEN <<>>
    ELSE <<addPredictionList(list, Head(preds))>>
            \o AddedLists(addPredictionList(list, Head(preds)), Tail(preds))

\* The lists after each of a sequence of resolvePrediction(id, value) calls.
RECURSIVE ResolvedLists(_, _)
ResolvedLists(list, calls) ==
    IF calls = <<>> THEN <<>>
    ELSE <<resolvePredictionList(list, Head(calls).id, Head(calls).value)>>
            \o ResolvedLists(resolvePredictionList(list, Head(calls).id, Head(calls).value),
                             Tail(calls))

\* A run of hook updates of panel p within one handler, each saving its
\* list: the list becomes the last one; the saves all succeed (the item is the
\* last list) or all fail on quota.
applyUpdates(p, lists, ok) ==
    /\ predictions' = [predictions EXCEPT ![p] = IF lists = <<>> THEN @ ELSE lists[Len(lists)]]
    /\ storage' = IF ok /\ lists # <<>> THEN savePredictionsText(lists[Len(lists)]) ELSE storage

(***************************************************************************)
(* AlertMonitor (src/src/components/AlertMonitor.tsx, lines 1-583).  The   *)
(* scan log and lastScan are display text and are left out.                *)
(***************************************************************************)
Categories == {"dormant_activation", "long_trap_signal", "derivatives_hedging", "new_whale_top100"}

\* useState's initial rules: what the mount-time closure of runScan sees.
InitRules ==
    [c \in Categories |-> [enabled |-> TRUE, lastCheck |-> 0, triggerCount |-> 0, status |-> "idle"]]

ScanSeconds == 180

\* No pass of runScan has completed.
NoScan == [n |-> 0, seen |-> InitRules, f |-> <<>>, off |-> {}]

\* AlertMonitor not mounted.
ScanIdle ==
    /\ monitorMounted = FALSE
    /\ scanning = FALSE
    /\ scans = {}
    /\ rules = InitRules
    /\ nextScanAt = 0
    /\ prevHolders = {}
    /\ feeHistory = <<>>
    /\ checkedAddrs = {}
    /\ scanned = NoScan

\* The alerts after a sequence of addAlert calls, each prepending its alert.
RECURSIVE AlertsAfter(_, _)
AlertsAfter(list, news) ==
    IF news = <<>> THEN list
    ELSE AlertsAfter(addAlertList(list, Head(news)), Tail(news))

RECURSIVE ToastsAfter(_, _)
ToastsAfter(list, news) ==
    IF news = <<>> THEN list
    ELSE ToastsAfter(Take(<<Head(news)>> \o list, MAX_TOASTS), Tail(news))

\* A run of addAlert calls within one handler, given as [severity, category,
\* title, data]; the saves all succeed or all fail on quota.
addAlerts(calls, ok) ==
    LET news == [i \in 1..Len(calls) |->
                    NewAlert(nextAlertId + i - 1, calls[i].severity, calls[i].category,
                             calls[i].title, calls[i].data)]
    IN  /\ alerts' = AlertsAfter(alerts, news)
        /\ alertStorage' = IF ok /\ calls # <<>>
                           THEN saveAlertsText(AlertsAfter(alerts, news)) ELSE alertStorage
        /\ toasts' = ToastsAfter(toasts, news)
        /\ toastTimers' = toastTimers \cup
              {[id |-> news[i].id, due |-> now + ToastTimeoutMs \div 1000] : i \in 1..Len(news)}
        /\ nextAlertId' = nextAlertId + Len(calls)

AlertCall(severity, category, title, data) ==
    [severity |-> severity, category |-> category, title |-> title, data |-> data]

\* Rule 1: the senders looked up, the first 10 not yet checked.
ToCheck(txs) ==
    Take(SelectSeq(txs, LAMBDA tx : tx.from \notin {"coinbase", "unknown"}
                                     /\ tx.from \notin checkedAddrs), 10)

\* Rule 1: the alert of one looked-up transaction, if any.
DormantCall(tx, dormantDays) ==
    IF dormantDays > 365 /\ tx.amount >= 50
    THEN <<AlertCall("critical", "dormant_activation", "dormant > 1y", Num(dormantDays))>>
    ELSE IF dormantDays > 180 /\ tx.amount >= 10
    THEN <<AlertCall("warning", "dormant_activation", "dormant > 180d", Num(dormantDays))>>
    ELSE <<>>

RECURSIVE DormantCalls(_, _)
DormantCalls(toCheck, dormancy) ==
    IF toCheck = <<>> THEN <<>>
    ELSE DormantCall(Head(toCheck), dormancy[Head(toCheck).from])
            \o DormantCalls(Tail(toCheck), dormancy)

RECURSIVE AmountOf(_, _)
\* The sum of the amounts of the transactions of a type.
AmountOf(txs, type) ==
    IF txs = <<>> THEN 0
    ELSE (IF Head(txs).type = type THEN Head(txs).amount ELSE 0) + AmountOf(Tail(txs), type)

\* The ratio taken as 1 whenever nothing was withdrawn.
RatioOver_NoWithdrawalsIsOne(depositBTC, withdrawalBTC, k) ==
    IF withdrawalBTC > 0 THEN depositBTC > k * withdrawalBTC ELSE 1 > k

\* Rule 2: ratio > k, for ratio = withdrawalBTC > 0 ? depositBTC / withdrawalBTC
\* : depositBTC > 0 ? 10 : 1.
RatioOver(depositBTC, withdrawalBTC, k) ==
    IF withdrawalBTC > 0 THEN depositBTC > k * withdrawalBTC
    ELSE IF depositBTC > 0 THEN 10 > k ELSE 1 > k

\* Rule 2: ratio in hundredths.
RatioOf(depositBTC, withdrawalBTC) ==
    IF withdrawalBTC > 0 THEN (100 * depositBTC) \div withdrawalBTC
    ELSE IF depositBTC > 0 THEN 1000 ELSE 100

LongTrapCalls(txs, changePercent24h) ==
    LET depositBTC == AmountOf(txs, "exchange_deposit")
        withdrawalBTC == AmountOf(txs, "exchange_withdrawal")
    IN  IF RatioOver(depositBTC, withdrawalBTC, 2) /\ changePercent24h > 2000
        THEN <<AlertCall("warning", "long_trap_signal", "long trap", Num(RatioOf(depositBTC, withdrawalBTC)))>>
        ELSE IF RatioOver(depositBTC, withdrawalBTC, 3)
        THEN <<AlertCall("info", "long_trap_signal", "deposits high", Num(RatioOf(depositBTC, withdrawalBTC)))>>
        ELSE <<>>

\* The fee window dropping the sample just pushed when it is full.
FeesAfter_DropsNewest(currentFee) ==
    IF Len(feeHistory) + 1 > 12 THEN feeHistory ELSE Append(feeHistory, currentFee)

\* Rule 3: feeHistoryRef after the push and the shift.
FeesAfter(currentFee) ==
    IF Len(feeHistory) + 1 > 12 THEN Tail(Append(feeHistory, currentFee))
    ELSE Append(feeHistory, currentFee)

\* Rule 3: spike is currentFee / avgFee (hundredths), Infinity when the
\* earlier samples sum to 0.
HedgingCalls(txs, currentFee) ==
    LET fees == FeesAfter(currentFee)
        earlier == SubSeq(fees, 1, Len(fees) - 1)
        feeSpike == currentFee * Len(earlier) > 2 * SumSeq(earlier)
        hasLargeDeposits ==
            SelectSeq(txs, LAMBDA t : t.type = "exchange_deposit" /\ t.amount > 50) # <<>>
    IN  IF Len(fees) >= 3 /\ feeSpike /\ hasLargeDeposits
        THEN <<AlertCall("warning", "derivatives_hedging", "hedging",
                         IF SumSeq(earlier) = 0 THEN Infinity
                         ELSE Num((100 * currentFee * Len(earlier)) \div SumSeq(earlier)))>>
        ELSE <<>>

\* Rule 4 without the baseline: the first list is compared with no list.
RECURSIVE WhaleCalls_NoBaseline(_)
WhaleCalls_NoBaseline(holders) ==
    IF holders = <<>> THEN <<>>
    ELSE (IF Head(holders).address \notin prevHolders
          THEN <<AlertCall("critical", "new_whale_top100", "new whale", Num(Head(holders).balance))>>
          ELSE <<>>)
         \o WhaleCalls_NoBaseline(Tail(holders))

\* Rule 4 alerting on every holder of the list once there is a baseline.
RECURSIVE WhaleCalls_EveryHolder(_)
WhaleCalls_EveryHolder(holders) ==
    IF holders = <<>> THEN <<>>
    ELSE (IF prevHolders # {}
          THEN <<AlertCall("critical", "new_whale_top100", "new whale", Num(Head(holders).balance))>>
          ELSE <<>>)
         \o WhaleCalls_EveryHolder(Tail(holders))

\* Rule 4: one alert per holder address not in the previous list.
RECURSIVE WhaleCalls(_)
WhaleCalls(holders) ==
    IF holders = <<>> THEN <<>>
    ELSE (IF prevHolders # {} /\ Head(holders).address \notin prevHolders
          THEN <<AlertCall("critical", "new_whale_top100", "new whale", Num(Head(holders).balance))>>
          ELSE <<>>)
         \o WhaleCalls(Tail(holders))

\* The five fetches of runScan and the fetches each rule reads.
ScanSources == {"txs", "price", "mempool", "holders", "flows"}

Uses(c) ==
    CASE c = "dormant_activation" -> {"txs"}
      [] c = "long_trap_signal" -> {"txs", "price"}
      [] c = "derivatives_hedging" -> {"mempool", "txs"}
      [] c = "new_whale_top100" -> {"holders"}

\* Promise.all without the .catch of each fetch: one rejection rejects the
\* await and the scan goes to its catch with no rule run.
ScanInputs_AllOrNothing(r) ==
    LET all == \A x \in ScanSources : r[x].ok IN
    [txs |-> IF all THEN r.txs.v ELSE <<>>,
     changePercent24h |-> IF all THEN r.price.v ELSE 0,
     fastest |-> IF all THEN r.mempool.v ELSE 0,
     holders |-> IF all THEN r.holders.v ELSE <<>>,
     dormancy |-> r.dormancy,
     raw |-> r]

\* What runScan works on after the await: the value of each fetch, or the
\* default of its .catch when it rejected.  raw keeps the outcomes.
ScanInputs(r) ==
    [txs |-> IF r.txs.ok THEN r.txs.v ELSE <<>>,
     changePercent24h |-> IF r.price.ok THEN r.price.v ELSE 0,
     fastest |-> IF r.mempool.ok THEN r.mempool.v ELSE 0,
     holders |-> IF r.holders.ok THEN r.holders.v ELSE <<>>,
     dormancy |-> r.dormancy,
     raw |-> r]

\* updateRule(category, {status, lastCheck, triggerCount}) after a rule ran.
RuleAfter(r, status, count) ==
    [r EXCEPT !.status = status, !.lastCheck = now, !.triggerCount = count]

\* The part of runScan after the guard and up to the await.  seen is the
\* rules of the closure called; off notes the rules switched off by then.
startScan(seen) ==
    /\ scanning' = TRUE
    /\ scans' = scans \cup {[n |-> nextPass, rules |-> seen,
                           off |-> {c \in Categories : ~rules[c].enabled}]}
    /\ nextPass' = nextPass + 1

\* The App tab switches to the alerts: the mount effect calls runScan and
\* starts the interval on that same closure.
MountMonitor ==
    /\ ~monitorMounted
    /\ nextPass <= MaxPasses
    /\ monitorMounted' = TRUE
    /\ nextScanAt' = now + ScanSeconds
    /\ startScan(rules)
    /\ UNCHANGED <<now, predVars, alertVars, confVars, rules, prevHolders, feeHistory, checkedAddrs,
                   scanned, mounted, generating, genPasses, polls, nextGenAt, mountHist, countdown, dataRef, lastPoll, lastGen>>

\* The interval fires runScan of the mount-time closure, whose `scanning` is
\* the initial false and whose rules are the initial rules.
ScanTimer ==
    /\ monitorMounted
    /\ now >= nextScanAt
    /\ nextPass <= MaxPasses
    /\ nextScanAt' = nextScanAt + ScanSeconds
    /\ startScan(InitRules)
    /\ UNCHANGED <<now, predVars, alertVars, confVars, monitorMounted, rules, prevHolders, feeHistory,
                   checkedAddrs, scanned, mounted, generating, genPasses, polls, nextGenAt, mountHist, countdown,
                   dataRef, lastPoll, lastGen>>

\* The button calls runScan of the current render.
ScanManual ==
    /\ monitorMounted
    /\ ~scanning
    /\ nextPass <= MaxPasses
    /\ startScan(rules)
    /\ UNCHANGED <<now, predVars, alertVars, confVars, monitorMounted, rules, nextScanAt, prevHolders,
                   feeHistory, checkedAddrs, scanned, mounted, generating, genPasses, polls, nextGenAt,
                   mountHist, countdown, dataRef, lastPoll, lastGen>>

\* The fetches of a pass return (f: the large transactions, the 24h price
\* change, the fastest fee, the holders, the dormancy of each sender) and
\* runScan evaluates the rules its closure sees enabled.
scanDone(sc, f, ok) ==
    LET seen == sc.rules
        run1 == seen["dormant_activation"].enabled /\ Len(f.txs) > 0
        run2 == seen["long_trap_signal"].enabled
        run3 == seen["derivatives_hedging"].enabled
        run4 == seen["new_whale_top100"].enabled /\ Len(f.holders) > 0
        calls1 == IF run1 THEN DormantCalls(ToCheck(f.txs), f.dormancy) ELSE <<>>
        calls2 == IF run2 THEN LongTrapCalls(f.txs, f.changePercent24h) ELSE <<>>
        calls3 == IF run3 THEN HedgingCalls(f.txs, f.fastest) ELSE <<>>
        calls4 == IF run4 THEN WhaleCalls(f.holders) ELSE <<>>
        after(c, run, calls, count) ==
            IF run
            THEN RuleAfter(rules[c], IF calls # <<>> THEN "triggered" ELSE "normal", count)
            ELSE rules[c]
    IN  /\ addAlerts(calls1 \o calls2 \o calls3 \o calls4, ok)
        /\ rules' =
             [c \in Categories |->
                CASE c = "dormant_activation" ->
                       after(c, run1, calls1, seen[c].triggerCount + Len(calls1))
                  [] c = "long_trap_signal" ->
                       after(c, run2, calls2, seen[c].triggerCount + (IF calls2 # <<>> THEN 1 ELSE 0))
                  [] c = "derivatives_hedging" ->
                       after(c, run3, calls3, seen[c].triggerCount + (IF calls3 # <<>> THEN 1 ELSE 0))
                  [] c = "new_whale_top100" ->
                       after(c, run4, calls4, seen[c].triggerCount + (IF calls4 # <<>> THEN 1 ELSE 0))]
        /\ checkedAddrs' = IF run1
                           THEN checkedAddrs \cup {ToCheck(f.txs)[i].from : i \in 1..Len(ToCheck(f.txs))}
                           ELSE checkedAddrs
        /\ feeHistory' = IF run3 THEN FeesAfter(f.fastest) ELSE feeHistory
        /\ prevHolders' = IF run4 THEN {f.holders[i].address : i \in 1..Len(f.holders)}
                          ELSE prevHolders
        /\ scanning' = FALSE
        /\ scans' = scans \ {sc}
        /\ scanned' = [n |-> sc.n, seen |-> seen, f |-> f, off |-> sc.off]

\* toggleRule(category)
toggleRule(c) ==
    rules' = [rules EXCEPT ![c].enabled = ~@]

(***************************************************************************)
(* The hook driven directly: any sequence of addPrediction,                *)
(* resolvePrediction and clearHistory calls on the App-level instance.     *)
(***************************************************************************)
PredictionSeconds == 300

\* What a caller passes: target, direction, currentValue, predictedChange,
\* confidence.
CallShapes ==
    { [target |-> "price", direction |-> "up", currentValue |-> 100,
       predictedChange |-> 2000, confidence |-> 50],
      [target |-> "price", direction |-> "neutral", currentValue |-> 10000,
       predictedChange |-> 0, confidence |-> 15] }

ActualValues == {98, 10005}

ShapedPrediction(uid, sh) ==
    NewPrediction(uid, sh.target, now, PredictionSeconds, sh.target, "5m",
                  sh.direction, sh.currentValue, sh.predictedChange, sh.confidence)

\* A list an earlier session of the page saved: n predictions, one per
\* period, the most recent first, each resolved when it expired.
SavedEarlier(n) ==
    [i \in 1..n |->
        resolveOne(NewPrediction(1 - i, "price", -(i * PredictionSeconds),
                                 PredictionSeconds, "price", "5m", "up", 100, 2000, 50),
                   [prefix |-> "price", ts |-> -(i * PredictionSeconds)], 98)]

IdsOf(list) == {list[i].id : i \in 1..Len(list)}

\* The ids the callers pass to resolvePrediction: those of the predictions
\* that have expired (resolveExpired keeps p with now >= p.targetTime).
ExpiredIds(list) == {list[i].id : i \in {j \in 1..Len(list) : now >= list[j].targetTime}}

TickSecond ==
    /\ now % PredictionSeconds < MaxSeconds
    /\ now' = now + 1
    /\ countdown' = [p \in Hooks |-> IF mounted[p] THEN Max(0, countdown[p] - 1) ELSE countdown[p]]
    /\ UNCHANGED <<predVars, alertVars, confVars, mounted, generating, genPasses, polls, nextPass, nextGenAt, mountHist, dataRef, lastPoll, lastGen, scanVars>>

TickPeriod ==
    /\ now \div PredictionSeconds < MaxPeriods
    /\ now' = now + PredictionSeconds
    /\ countdown' = [p \in Hooks |->
                        IF mounted[p] THEN Max(0, countdown[p] - PredictionSeconds) ELSE countdown[p]]
    /\ UNCHANGED <<predVars, alertVars, confVars, mounted, generating, genPasses, polls, nextPass, nextGenAt, mountHist, dataRef, lastPoll, lastGen, scanVars>>

HookAdd ==
    /\ nextUid <= MaxAdds
    /\ \E sh \in CallShapes, ok \in BOOLEAN :
          addPrediction("app", ShapedPrediction(nextUid, sh), ok)
    /\ nextUid' = nextUid + 1
    /\ UNCHANGED <<now, alertVars, confVars, panelVars, scanVars>>

HookResolve ==
    /\ \E id \in ExpiredIds(predictions["app"]) \cup {[prefix |-> "large_tx", ts |-> 0]},
          v \in ActualValues, ok \in BOOLEAN :
          resolvePrediction("app", id, v, ok)
    /\ UNCHANGED <<now, nextUid, alertVars, confVars, panelVars, scanVars>>

HookClear ==
    /\ \E ok \in BOOLEAN : clearHistory("app", ok)
    /\ UNCHANGED <<now, nextUid, alertVars, confVars, panelVars, scanVars>>

\* The prediction hooks as the page opens: the App-level one loads the item.
PredInit(items) ==
    /\ storage \in items
    /\ predictions = [h \in Hooks |-> IF h = "app" THEN loadPredictions(storage) ELSE <<>>]
    /\ nextUid = 1

HookInit ==
    /\ now = 0
    /\ PredInit({NoItem, BadText, ArrayText(SavedEarlier(1))})
    /\ AlertInit({NoItem})
    /\ ConfIdle
    /\ PanelIdle
    /\ ScanIdle

HookNext == TickSecond \/ TickPeriod \/ HookAdd \/ HookResolve \/ HookClear

SpecHook == HookInit /\ [][HookNext]_vars

(***************************************************************************)
(* C1.  A prediction that is in the list resolved is never later in the   *)
(* list unresolved, and the targetTime of a prediction never changes while *)
(* it is in the list.                                                      *)
(***************************************************************************)
C1_ResolvedNeverReverts ==
    [][\A h \in Hooks :
         \A i \in 1..Len(predictions[h]) : \A j \in 1..Len(predictions'[h]) :
            predictions[h][i].uid = predictions'[h][j].uid =>
               /\ predictions'[h][j].targetTime = predictions[h][i].targetTime
               /\ predictions[h][i].resolved => predictions'[h][j].resolved]_vars

\* A prediction resolved in this run sits behind a newer, unresolved one.
C1_Witness ==
    \E i, j \in 1..Len(predictions["app"]) :
        /\ i < j
        /\ ~predictions["app"][i].resolved
        /\ predictions["app"][j].resolved
        /\ predictions["app"][j].uid >= 1

(***************************************************************************)
(* C2.  resolvePrediction(id, v2) on a prediction that is already         *)
(* resolved changes nothing: for every resolved prediction of the list and *)
(* every v2 the list the updater returns is the list it was given.         *)
(***************************************************************************)
C2_ResolveIdempotent ==
    \A h \in Hooks : \A i \in 1..Len(predictions[h]) :
        predictions[h][i].resolved =>
            \A v2 \in ActualValues \cup {0} :
                resolvePredictionList(predictions[h], predictions[h][i].id, v2)
                    = predictions[h]

\* A prediction was resolved with 98 in this run (so a second call with
\* 10005 would differ), next to one that is still unresolved.
C2_Witness ==
    \E i, j \in 1..Len(predictions["app"]) :
        /\ predictions["app"][i].resolved
        /\ predictions["app"][i].uid >= 1
        /\ predictions["app"][i].actualValue = Num(98)
        /\ ~predictions["app"][j].resolved

(***************************************************************************)
(* resolvePrediction on predictions of every direction, a current value of *)
(* 0 among them.                                                           *)
(***************************************************************************)
ResolveShapes ==
    CallShapes \cup
    { [target |-> "price", direction |-> "down", currentValue |-> 100,
       predictedChange |-> -1000, confidence |-> 50],
      [target |-> "price", direction |-> "up", currentValue |-> 0,
       predictedChange |-> 500, confidence |-> 15] }

\* A panel adds a prediction; the storage accepts the save.
ResolveAdd ==
    /\ nextUid <= MaxAdds
    /\ \E sh \in ResolveShapes : addPrediction("app", ShapedPrediction(nextUid, sh), TRUE)
    /\ nextUid' = nextUid + 1
    /\ UNCHANGED <<now, alertVars, confVars, panelVars, scanVars>>

\* A caller resolves an expired prediction; the storage accepts the save.
ResolveExpired ==
    /\ \E id \in ExpiredIds(predictions["app"]), v \in ActualValues :
          resolvePrediction("app", id, v, TRUE)
    /\ UNCHANGED <<now, nextUid, alertVars, confVars, panelVars, scanVars>>

ResolveInit ==
    /\ now = 0
    /\ PredInit({NoItem})
    /\ AlertInit({NoItem})
    /\ ConfIdle
    /\ PanelIdle
    /\ ScanIdle

ResolveNext == TickPeriod \/ ResolveAdd \/ ResolveExpired

SpecResolve == ResolveInit /\ [][ResolveNext]_vars

\* C14: resolving an unresolved prediction with actual value a sets
\* actualChange = (a - currentValue) / currentValue * 100 (0 when currentValue
\* is 0), error = |actualChange - predictedChange| and accurate = (up and
\* actualChange > 0) or (down and actualChange < 0) or (neutral and
\* |actualChange| < 0.1); up, predictedChange 2, currentValue 100, a = 98
\* gives actualChange -2, accurate false, error 4.
C14_ResolveComputes ==
    [][\A i \in 1..Len(predictions["app"]) : \A j \in 1..Len(predictions'["app"]) :
          LET p == predictions["app"][i]
              q == predictions'["app"][j]
              a == q.actualValue.v
              change == q.actualChange.v
          IN  (p.uid = q.uid /\ ~p.resolved /\ q.resolved) =>
                /\ q.actualValue.t = "number" /\ q.actualChange.t = "number"
                /\ IF p.currentValue = 0 THEN change = 0
                   ELSE change * p.currentValue = (a - p.currentValue) * 100000
                /\ q.error = Num(Abs(change - p.predictedChange))
                /\ q.accurate = Bool(\/ p.direction = "up" /\ change > 0
                                     \/ p.direction = "down" /\ change < 0
                                     \/ p.direction = "neutral" /\ Abs(change) < 100)
                /\ (p.direction = "up" /\ p.predictedChange = 2000 /\ p.currentValue = 100 /\ a = 98)
                      => (change = -2000 /\ q.accurate = Bool(FALSE) /\ q.error = Num(4000))]_vars

\* A prediction created in this run with direction up, predictedChange 2 and
\* currentValue 100 is resolved with 98, next to a resolved one whose
\* currentValue is 0.
C14_Witness ==
    \E i, k \in 1..Len(predictions["app"]) :
        /\ predictions["app"][i].uid >= 1
        /\ predictions["app"][i].direction = "up"
        /\ predictions["app"][i].currentValue = 100
        /\ predictions["app"][i].actualValue = Num(98)
        /\ predictions["app"][i].error = Num(4000)
        /\ predictions["app"][k].uid >= 1
        /\ predictions["app"][k].currentValue = 0
        /\ predictions["app"][k].actualChange = Num(0)
        /\ predictions["app"][k].resolved

(***************************************************************************)
(* The hook at its cap: the page opens on a stored list one record short   *)
(* of MAX_PREDICTIONS and predictions are added.                           *)
(***************************************************************************)
CapInit ==
    /\ now = 0
    /\ PredInit({ArrayText(SavedEarlier(MAX_PREDICTIONS - 1))})
    /\ AlertInit({NoItem})
    /\ ConfIdle
    /\ PanelIdle
    /\ ScanIdle

CapNext == TickSecond \/ TickPeriod \/ HookAdd

SpecCap == CapInit /\ [][CapNext]_vars

\* Most recent first: each record was created after the one that follows it.
MostRecentFirst(list) ==
    \A i \in 1..(Len(list) - 1) :
        /\ list[i].uid > list[i + 1].uid
        /\ list[i].createdAt >= list[i + 1].createdAt

(***************************************************************************)
(* C7.  The in-memory list and the persisted list each hold at most       *)
(* MAX_PREDICTIONS records, most recent first; an addPrediction on a full  *)
(* list puts the new record at the head and drops the last (oldest) one.   *)
(***************************************************************************)
C7_Capped ==
    /\ [](\A h \in Hooks :
            /\ Len(predictions[h]) <= MAX_PREDICTIONS
            /\ MostRecentFirst(predictions[h]))
    /\ [](/\ Len(loadPredictions(storage)) <= MAX_PREDICTIONS
          /\ MostRecentFirst(loadPredictions(storage)))
    /\ [][\A h \in Hooks :
            (Len(predictions[h]) = MAX_PREDICTIONS /\ predictions'[h] # predictions[h]) =>
                /\ Len(predictions'[h]) = MAX_PREDICTIONS
                /\ predictions'[h][1].uid > predictions[h][1].uid
                /\ SubSeq(predictions'[h], 2, MAX_PREDICTIONS)
                      = SubSeq(predictions[h], 1, MAX_PREDICTIONS - 1)]_vars

\* The 501st record has been added: the list is full and its oldest record
\* is no longer the one the page opened with.
C7_Witness ==
    /\ Len(predictions["app"]) = MAX_PREDICTIONS
    /\ predictions["app"][1].uid = 2
    /\ predictions["app"][MAX_PREDICTIONS].uid = 3 - MAX_PREDICTIONS
    /\ Len(loadPredictions(storage)) = MAX_PREDICTIONS
    /\ loadPredictions(storage)[1].uid = 2

(***************************************************************************)
(* The alert list driven by its callers: the rule scan adds alerts, the    *)
(* AlertPanel marks, clears and dismisses, the timeouts expire toasts.     *)
(***************************************************************************)
\* severity, category, title and data as the call sites of AlertMonitor pass
\* them; the derivatives rule passes spike = currentFee / avgFee, which is
\* Infinity when every earlier fee sample is 0.
AlertCalls ==
    { [severity |-> "critical", category |-> "dormant_activation",
       title |-> "dormant > 1y", data |-> Num(60)],
      [severity |-> "info", category |-> "long_trap_signal",
       title |-> "deposits high", data |-> Num(10)],
      [severity |-> "warning", category |-> "derivatives_hedging",
       title |-> "hedging", data |-> Infinity] }

\* The alerts the panel is asked to mark: the newest and the oldest.
Markable == {alerts[i].id : i \in {j \in 1..Len(alerts) : j = 1 \/ j = Len(alerts)}}

TickToast ==
    /\ now \div (ToastTimeoutMs \div 1000) < MaxToastPeriods
    /\ now' = now + ToastTimeoutMs \div 1000
    /\ UNCHANGED <<predVars, alertVars, confVars, panelVars, scanVars>>

AlertAdd ==
    /\ nextAlertId <= MaxAlertAdds
    /\ \E c \in AlertCalls, ok \in BOOLEAN :
          addAlert(c.severity, c.category, c.title, c.data, ok)
    /\ UNCHANGED <<now, predVars, confVars, panelVars, scanVars>>

AlertMarkRead ==
    /\ \E id \in Markable \cup {0 - MAX_ALERTS}, ok \in BOOLEAN : markRead(id, ok)
    /\ UNCHANGED <<now, predVars, confVars, panelVars, scanVars>>

AlertMarkAllRead ==
    /\ \E ok \in BOOLEAN : markAllRead(ok)
    /\ UNCHANGED <<now, predVars, confVars, panelVars, scanVars>>

AlertClearAll ==
    /\ \E ok \in BOOLEAN : clearAll(ok)
    /\ UNCHANGED <<now, predVars, confVars, panelVars, scanVars>>

ToastDismiss ==
    /\ \E i \in 1..Len(toasts) : dismissToast(toasts[i].id)
    /\ UNCHANGED <<now, predVars, confVars, panelVars, scanVars>>

ToastExpire ==
    /\ \E tm \in toastTimers : now >= tm.due /\ toastTimeout(tm)
    /\ UNCHANGED <<now, predVars, confVars, panelVars, scanVars>>

AlertsInit ==
    /\ now = 0
    /\ PredInit({NoItem})
    /\ AlertInit({NoItem, BadText, ArrayText(SavedAlerts(1))})
    /\ ConfIdle
    /\ PanelIdle
    /\ ScanIdle

AlertsNext ==
    \/ TickSecond \/ TickToast
    \/ AlertAdd \/ AlertMarkRead \/ AlertMarkAllRead \/ AlertClearAll
    \/ ToastDismiss \/ ToastExpire

SpecAlerts == AlertsInit /\ [][AlertsNext]_vars

(***************************************************************************)
(* The alert list at its cap: the page opens on a saved list one short of  *)
(* MAX_ALERTS.                                                             *)
(***************************************************************************)
AlertCapInit ==
    /\ now = 0
    /\ PredInit({NoItem})
    /\ AlertInit({ArrayText(SavedAlerts(MAX_ALERTS - 1))})
    /\ ConfIdle
    /\ PanelIdle
    /\ ScanIdle

AlertCapNext ==
    AlertAdd \/ AlertMarkRead \/ AlertMarkAllRead \/ AlertClearAll

SpecAlertCap == AlertCapInit /\ [][AlertCapNext]_vars

\* Most-recent-first for alerts: a later-created alert stands before an
\* earlier one.
AlertsMostRecentFirst(list) ==
    \A i \in 1..(Len(list) - 1) :
        /\ list[i].id > list[i + 1].id
        /\ list[i].timestamp >= list[i + 1].timestamp

\* C8: after any sequence of addAlert, markRead, markAllRead and clearAll the
\* alert list (and the saved one) holds at most MAX_ALERTS records, the most
\* recent first; in one step either no alert leaves the list, or all do
\* (clearAll), or exactly the oldest one does, evicted by an addAlert on a
\* full list.
C8_AlertsCapped ==
    /\ [](/\ Len(alerts) <= MAX_ALERTS
          /\ AlertsMostRecentFirst(alerts)
          /\ Len(loadAlerts(alertStorage)) <= MAX_ALERTS)
    /\ [][\/ alerts' = <<>>
          \/ /\ Len(alerts') = Len(alerts)
             /\ \A i \in 1..Len(alerts) : alerts'[i].id = alerts[i].id
          \/ /\ Len(alerts') = Len(alerts) + 1
             /\ \A i \in 1..Len(alerts) : alerts'[i + 1].id = alerts[i].id
          \/ /\ Len(alerts) = MAX_ALERTS
             /\ Len(alerts') = MAX_ALERTS
             /\ alerts'[1].id > alerts[1].id
             /\ \A i \in 1..(MAX_ALERTS - 1) : alerts'[i + 1].id = alerts[i].id]_vars

\* The list is full, two alerts were added since the page opened, the oldest
\* saved alert is gone and a marked alert is still there.
C8_Witness ==
    /\ Len(alerts) = MAX_ALERTS
    /\ alerts[1].id = 2
    /\ alerts[MAX_ALERTS].id = 3 - MAX_ALERTS
    /\ alerts[MAX_ALERTS].read
    /\ ~alerts[1].read

\* C9: loading what was just saved returns the first cap records of the
\* saved list in the same order, for alerts and for predictions; loading when
\* nothing was saved, or when the saved text does not parse, returns the
\* empty list.
C9_SaveLoadRoundTrip ==
    /\ loadAlerts(saveAlertsText(alerts)) = Take(alerts, MAX_ALERTS)
    /\ \A h \in Hooks :
          loadPredictions(savePredictionsText(predictions[h]))
              = Take(predictions[h], MAX_PREDICTIONS)
    /\ loadAlerts(NoItem) = <<>> /\ loadAlerts(BadText) = <<>>
    /\ loadPredictions(NoItem) = <<>> /\ loadPredictions(BadText) = <<>>

\* A derivatives alert whose spike is Infinity was just added and saved.
C9_Witness ==
    /\ Len(alerts) > 0
    /\ alerts[1].data = Infinity
    /\ alertStorage = saveAlertsText(alerts)
    /\ loadAlerts(alertStorage)[1].data = Null

(***************************************************************************)
(* aggregateSignals and adjustConfidence applied to drawn arguments.       *)
(***************************************************************************)
ConfInit ==
    /\ now = 0
    /\ PredInit({NoItem})
    /\ AlertInit({NoItem})
    /\ cSignals \in SignalLists
    /\ cBase \in BaseInputs
    /\ cHist \in HistInputs
    /\ cResult = NoResult
    /\ cAdjusted = Undefined
    /\ cAccuracy = NoAccuracy
    /\ cExplained = NoExplained
    /\ cIndicator = NoIndicator
    /\ prices = <<>>
    /\ exchangeNetflow = 0
    /\ PanelIdle
    /\ ScanIdle

ConfAggregate ==
    /\ cResult = NoResult
    /\ cResult' = aggregateSignals(cSignals)
    /\ UNCHANGED <<now, predVars, alertVars, panelVars, cSignals, cBase, cHist, cAdjusted, cAccuracy, cExplained, cIndicator, prices, exchangeNetflow, scanVars>>

\* adjustConfidence(result.confidence, histAcc), as the generation paths call it.
ConfAdjust ==
    /\ cResult # NoResult
    /\ cAdjusted = Undefined
    /\ cAdjusted' = adjustConfidence(Num(cResult.confidence), cHist)
    /\ UNCHANGED <<now, predVars, alertVars, panelVars, cSignals, cBase, cHist, cResult, cAccuracy, cExplained, cIndicator, prices, exchangeNetflow, scanVars>>

\* adjustConfidence(baseConfidence, historicalAccuracy) on any two numbers.
ConfAdjustInput ==
    /\ cAdjusted = Undefined
    /\ cAdjusted' = adjustConfidence(cBase, cHist)
    /\ UNCHANGED <<now, predVars, alertVars, panelVars, cSignals, cBase, cHist, cResult, cAccuracy, cExplained, cIndicator, prices, exchangeNetflow, scanVars>>

ConfNext == ConfAggregate \/ ConfAdjust \/ ConfAdjustInput

SpecConfidence == ConfInit /\ [][ConfNext]_vars

C11_TieIsNeutral ==
    (cResult # NoResult /\ WeightOf(cSignals, {"up"}) = WeightOf(cSignals, {"down"}))
        => (cResult.direction = "neutral" /\ cResult.change = 0)

\* aggregateSignals has returned for a list whose up and down weights are
\* equal and positive, among neutral signals.
C11_Witness ==
    /\ cResult # NoResult
    /\ WeightOf(cSignals, {"up"}) = WeightOf(cSignals, {"down"})
    /\ WeightOf(cSignals, {"up"}) > 0
    /\ WeightOf(cSignals, {"neutral"}) > 0

Series(price, n, d1, d2) ==
    [i \in 1..n |-> IF i = n - 1 THEN price + d1 ELSE IF i = n THEN price + d2 ELSE price]

\* The price histories predictPrice is called on: fetchGranularPriceHistory
\* returns fewer than 30 points, 30, or 40; the price is flat up to the
\* last two points.
PriceSeries ==
    { Series(price, n, d1, d2) :
        price \in {100, 250}, n \in {29, 30, 40}, d1 \in -1..1, d2 \in -1..1 }

Netflows == {-1, 0, 1}

PriceInit ==
    /\ now = 0
    /\ PredInit({NoItem})
    /\ AlertInit({NoItem})
    /\ cSignals = <<>>
    /\ cBase = Undefined
    /\ cHist = Undefined
    /\ cResult = NoResult
    /\ cAdjusted = Undefined
    /\ cAccuracy = NoAccuracy
    /\ cExplained = NoExplained
    /\ cIndicator = NoIndicator
    /\ prices \in PriceSeries
    /\ exchangeNetflow \in Netflows
    /\ PanelIdle
    /\ ScanIdle

\* predictPrice(prices, exchangeNetflow) is called and returns.
PredictPrice ==
    /\ cResult = NoResult
    /\ cSignals' = IF Len(prices) < 30 THEN <<>> ELSE PriceSignals(prices, exchangeNetflow)
    /\ cResult' = predictPrice(prices, exchangeNetflow)
    /\ UNCHANGED <<now, predVars, alertVars, panelVars, cBase, cHist, cAdjusted, cAccuracy, cExplained, cIndicator, prices, exchangeNetflow, scanVars>>

\* adjustConfidence(result.confidence, histAcc) with no resolved prediction.
PriceAdjust ==
    /\ cResult # NoResult
    /\ cAdjusted = Undefined
    /\ cHist' = Num(50000)
    /\ cAdjusted' = adjustConfidence(Num(cResult.confidence), Num(50000))
    /\ UNCHANGED <<now, predVars, alertVars, panelVars, cSignals, cBase, cResult, cAccuracy, cExplained, cIndicator, prices, exchangeNetflow, scanVars>>

PriceNext == PredictPrice \/ PriceAdjust

SpecPrice == PriceInit /\ [][PriceNext]_vars

\* C13: predictPrice on a series of 40 equal prices with exchange netflow 0
\* returns direction neutral and confidence 15.
C13_FlatSeriesNeutral ==
    (/\ cResult # NoResult
     /\ Len(prices) = 40
     /\ \A i \in 1..Len(prices) : prices[i] = prices[1]
     /\ exchangeNetflow = 0)
        => (cResult.direction = "neutral" /\ cResult.confidence = 15)

\* predictPrice has returned for 40 equal prices and netflow 0: the RSI
\* signal is down, the other four are neutral.
C13_Witness ==
    /\ cResult # NoResult
    /\ Len(prices) = 40
    /\ \A i \in 1..Len(prices) : prices[i] = prices[1]
    /\ exchangeNetflow = 0
    /\ cSignals = << Signal("neutral", 20), Signal("down", 20), Signal("neutral", 20),
                     Signal("neutral", 15), Signal("neutral", 15) >>
    /\ cResult.direction = "down"
    /\ cResult.confidence = 31

(***************************************************************************)
(* PredictionDashboard (src/unnamed/part_004).                             *)
(***************************************************************************)
NoTxs == [n |-> 0, deposits |-> 0, large |-> 0]

\* What the fetches of generatePredictions and resolveExpired can return
\* together: the granular price history (more than 30 prices, their last one,
\* and the signals predictPrice derives from them), the current price, the
\* mempool, the large transactions.  Everything fails; everything succeeds;
\* the price fetches fail; no large transaction is found.
LongHistory ==
    [long |-> TRUE, last |-> 10000,
     signals |-> <<Signal("up", 20), Signal("neutral", 20), Signal("up", 20),
                   Signal("up", 15), Signal("neutral", 15)>>]
NoHistory == [long |-> FALSE, last |-> 0, signals |-> <<>>]
SomeTxs == [n |-> 3, deposits |-> 2, large |-> 1]
DashFetches ==
    { [history |-> Caught(NoHistory), price |-> Caught(0),
       mempool |-> Caught([count |-> 0, fastest |-> 0]), txs |-> Caught(NoTxs)],
      [history |-> Got(LongHistory), price |-> Got(10005),
       mempool |-> Got([count |-> 40000, fastest |-> 10]), txs |-> Got(SomeTxs)],
      [history |-> Caught(NoHistory), price |-> Caught(0),
       mempool |-> Got([count |-> 40000, fastest |-> 10]), txs |-> Got(SomeTxs)],
      [history |-> Got(LongHistory), price |-> Got(10005),
       mempool |-> Got([count |-> 40000, fastest |-> 10]), txs |-> Got(NoTxs)] }

\* The predictions one pass of generatePredictions adds, in the order added.
DashPredictions(hist, history, price, mempool, txsFetch) ==
    LET long == history.v.long
        currentPrice == IF price.v # 0 THEN price.v ELSE history.v.last
        mempoolCount == mempool.v.count
        fastest == mempool.v.fastest
        txs == txsFetch.v
        rPrice == aggregateSignals(history.v.signals)
        rVolume == predictTxVolume(PushCapped(dataRef.mempoolSizes, mempoolCount),
                                   PushCapped(dataRef.feeTrend, fastest),
                                   IF Len(dataRef.blockTxCounts) > 0 THEN dataRef.blockTxCounts
                                   ELSE <<mempoolCount \div 10>>)
        rWhale == predictWhaleMovement(txs.n, 10, txs.deposits, IF txs.n # 0 THEN txs.n ELSE 1, 0)
        rLarge == predictLargeTx(mempoolCount, 30000, txs.large, 5)
        conf(r, t) == adjustConfidence(Num(r.confidence), Num(hist[t])).v
    IN  (IF long
         THEN <<NewPrediction(nextUid, "price", now, PredictionSeconds, "price", "undefined",
                              rPrice.direction, currentPrice, rPrice.change, conf(rPrice, "price"))>>
         ELSE <<>>)
        \o <<NewPrediction(nextUid + 1, "tx_volume", now, PredictionSeconds, "tx_volume", "undefined",
                           rVolume.direction, mempoolCount, rVolume.change, conf(rVolume, "tx_volume")),
             NewPrediction(nextUid + 2, "whale_movement", now, PredictionSeconds, "whale_movement", "undefined",
                           rWhale.direction, txs.n, rWhale.change, conf(rWhale, "whale_movement")),
             NewPrediction(nextUid + 3, "large_tx", now, PredictionSeconds, "large_tx", "undefined",
                           rLarge.direction, txs.large, rLarge.change, conf(rLarge, "large_tx"))>>

\* The App tab switches to the dashboard: its mount effect calls
\* generatePredictions and starts the interval on that same closure.
MountDashboard ==
    /\ ~mounted["app"]
    /\ nextPass <= MaxPasses
    /\ mounted' = [mounted EXCEPT !["app"] = TRUE]
    /\ nextGenAt' = [nextGenAt EXCEPT !["app"] = now + PredictionSeconds]
    /\ mountHist' = [mountHist EXCEPT !["app"] = [t \in Targets |-> getHistAcc(predictions["app"], t)]]
    /\ startPass("app", [t \in Targets |-> getHistAcc(predictions["app"], t)])
    /\ UNCHANGED <<now, predVars, alertVars, confVars, polls, countdown, dataRef, lastPoll, lastGen, scanVars>>

\* The interval fires generatePredictions of the mount-time closure, whose
\* `generating` is the initial false.
DashTimer ==
    /\ mounted["app"]
    /\ now >= nextGenAt["app"]
    /\ nextPass <= MaxPasses
    /\ nextGenAt' = [nextGenAt EXCEPT !["app"] = @ + PredictionSeconds]
    /\ startPass("app", mountHist["app"])
    /\ UNCHANGED <<now, predVars, alertVars, confVars, mounted, polls, mountHist, countdown, dataRef, lastPoll, lastGen, scanVars>>

\* The button calls generatePredictions of the current render.
DashManual ==
    /\ mounted["app"]
    /\ ~generating["app"]
    /\ nextPass <= MaxPasses
    /\ startPass("app", [t \in Targets |-> getHistAcc(predictions["app"], t)])
    /\ UNCHANGED <<now, predVars, alertVars, confVars, mounted, polls, nextGenAt, mountHist, countdown, dataRef, lastPoll, lastGen, scanVars>>

\* The fetches of a pass return: generatePredictions runs to its end.
DashGenDone ==
    \E g \in {x \in genPasses : x.panel = "app"} :
    \E f \in DashFetches :
    LET preds == DashPredictions(g.hist, f.history, f.price, f.mempool, f.txs)
        lists == AddedLists(predictions["app"], preds)
    IN  /\ \E saved \in BOOLEAN : applyUpdates("app", lists, saved)
        /\ nextUid' = nextUid + 4
        /\ dataRef' = [dataRef EXCEPT
                         !.mempoolSizes = PushCapped(@, f.mempool.v.count),
                         !.feeTrend = PushCapped(@, f.mempool.v.fastest)]
        /\ generating' = [generating EXCEPT !["app"] = FALSE]
        /\ genPasses' = genPasses \ {g}
        /\ lastGen' = [n |-> g.n, panel |-> "app", f |-> f]
        /\ countdown' = [countdown EXCEPT !["app"] = 300]
        /\ UNCHANGED <<now, alertVars, confVars, mounted, polls, nextPass, nextGenAt, mountHist, lastPoll, scanVars>>

\* [id, target] of the unresolved predictions of a list that have expired.
ExpiredOf(list) ==
    LET exp == SelectSeq(list, LAMBDA p : ~p.resolved /\ now >= p.targetTime)
    IN  [i \in 1..Len(exp) |-> [id |-> exp[i].id, target |-> exp[i].target]]

\* The resolve interval fires resolveExpired of the current render, which
\* returns at once when nothing has expired.
PollStart(p) ==
    /\ mounted[p]
    /\ nextPass <= MaxPasses
    /\ ExpiredOf(predictions[p]) # <<>>
    /\ polls' = polls \cup {[panel |-> p, n |-> nextPass, expired |-> ExpiredOf(predictions[p])]}
    /\ nextPass' = nextPass + 1
    /\ UNCHANGED <<now, predVars, alertVars, confVars, mounted, generating, genPasses, nextGenAt, mountHist, countdown, dataRef, lastPoll, lastGen, scanVars>>

DashPollStart == PollStart("app")

\* The resolvePrediction calls of a poll: one per expired prediction whose
\* actual value passes the test.
ResolveCalls(expired, value, passing) ==
    LET called == SelectSeq(expired, LAMBDA e : e.target \in passing)
    IN  [i \in 1..Len(called) |-> [id |-> called[i].id, value |-> value[called[i].target]]]

AllTargets == Targets \cup {"holder_trend", "correlation_signal"}

\* The fetches of a dashboard poll return: resolveExpired runs to its end.
DashPollDone ==
    \E q \in {x \in polls : x.panel = "app"} :
    \E f \in DashFetches :
    LET price == f.price
        mempool == f.mempool
        txs == f.txs
        value == [t \in AllTargets |->
                    CASE t = "price" -> price.v
                      [] t = "tx_volume" -> mempool.v.count
                      [] t = "whale_movement" -> txs.v.n
                      [] t = "large_tx" -> txs.v.large
                      [] OTHER -> 0]
        ok == [t \in AllTargets |->
                    CASE t = "price" -> price.ok
                      [] t = "tx_volume" -> mempool.ok
                      [] t \in {"whale_movement", "large_tx"} -> txs.ok
                      [] OTHER -> FALSE]
        calls == ResolveCalls(q.expired, value, {t \in AllTargets : value[t] > 0})
        lists == ResolvedLists(predictions["app"], calls)
    IN  /\ \E saved \in BOOLEAN : applyUpdates("app", lists, saved)
        /\ polls' = polls \ {q}
        /\ lastPoll' = [n |-> q.n, panel |-> "app", expired |-> q.expired, ok |-> ok, value |-> value]
        /\ UNCHANGED <<now, nextUid, alertVars, confVars, mounted, generating, genPasses, nextPass, nextGenAt, mountHist, countdown, dataRef, lastGen, scanVars>>

DashInit ==
    /\ now = 0
    /\ PredInit({NoItem})
    /\ AlertInit({NoItem})
    /\ ConfIdle
    /\ PanelIdle
    /\ ScanIdle

DashNext ==
    \/ TickSecond \/ TickPeriod
    \/ MountDashboard \/ DashTimer \/ DashManual \/ DashGenDone
    \/ DashPollStart \/ DashPollDone

SpecDashboard == DashInit /\ [][DashNext]_vars

\* C4: in every reachable state a prediction list holds at most one unresolved
\* prediction per (target, timeframe) slot.
C4_OneActivePerSlot ==
    \A h \in Hooks : \A i, j \in 1..Len(predictions[h]) :
        (i # j /\ ~predictions[h][i].resolved /\ ~predictions[h][j].resolved)
            => <<predictions[h][i].target, predictions[h][i].timeframe>>
                 # <<predictions[h][j].target, predictions[h][j].timeframe>>

\* C6, on finite runs: a resolve poll whose actual-value fetch for a target
\* succeeded (also with the value 0) leaves every expired prediction of that
\* target it looked at resolved.
C6_SuccessfulPollResolves ==
    [][lastPoll'.n # lastPoll.n =>
          \A k \in 1..Len(lastPoll'.expired) :
              lastPoll'.ok[lastPoll'.expired[k].target] =>
                  \A i \in 1..Len(predictions'[lastPoll'.panel]) :
                      predictions'[lastPoll'.panel][i].id = lastPoll'.expired[k].id
                          => predictions'[lastPoll'.panel][i].resolved]_vars

\* A poll fetched the large transactions successfully, found none, and the
\* expired whale_movement prediction it looked at is still unresolved.
C6_Witness ==
    /\ lastPoll.panel = "app"
    /\ lastPoll.ok["whale_movement"]
    /\ lastPoll.value["whale_movement"] = 0
    /\ \E k \in 1..Len(lastPoll.expired), i \in 1..Len(predictions["app"]) :
          /\ lastPoll.expired[k].target = "whale_movement"
          /\ predictions["app"][i].id = lastPoll.expired[k].id
          /\ ~predictions["app"][i].resolved

(***************************************************************************)
(* EmbeddedPredictionPanel (src/unnamed/part_002) as TopHolders mounts it  *)
(* (src/src/components/TopHolders.tsx).  Holdings are in thousands of BTC. *)
(***************************************************************************)
\* The holders of a TopHolders render: none yet, or the loaded ones with
\* their total, the exchanges' share and the recent netflow.
NoHolders == [count |-> 0, total |-> 0, exchange |-> 0, net |-> 0]
EmbHolders == {NoHolders, [count |-> 100, total |-> 2600, exchange |-> 900, net |-> 150]}

\* The sum of getKnownTopHolders(), which fetchTopHolders returns when its
\* request fails: 15 listed balances and 85 drawn ones.
KnownHolderSums == {2411, 2453}

\* What the request of fetchTopHolders can return, as the sum of balances:
\* failure, no address, the addresses.
EmbFetches == {Failed, Got(0), Got(2650)}

\* Mounting TopHolders mounts the panel: its hook loads the item, and the
\* mount effect starts the countdown of an unexpired prediction or calls
\* generate; the interval is started on that same closure, whose onGenerate
\* sees no holders.
MountEmbedded ==
    LET loaded == loadPredictions(storage)
        active == SelectSeq(loaded, LAMBDA q : ~q.resolved)
        counting == active # <<>> /\ active[1].targetTime - now > 0
    IN  /\ ~mounted["emb"]
        /\ nextPass <= MaxPasses
        /\ mounted' = [mounted EXCEPT !["emb"] = TRUE]
        /\ predictions' = [predictions EXCEPT !["emb"] = loaded]
        /\ nextGenAt' = [nextGenAt EXCEPT !["emb"] = now + PredictionSeconds]
        /\ IF counting
           THEN /\ countdown' = [countdown EXCEPT !["emb"] = active[1].targetTime - now]
                /\ UNCHANGED <<generating, genPasses, nextPass>>
           ELSE /\ startPass("emb", NoHolders)
                /\ UNCHANGED countdown
        /\ UNCHANGED <<now, storage, nextUid, alertVars, confVars, polls, mountHist, dataRef, lastPoll, lastGen, scanVars>>

\* The interval fires generate of the mount-time closure.
EmbTimer ==
    /\ mounted["emb"]
    /\ now >= nextGenAt["emb"]
    /\ nextPass <= MaxPasses
    /\ nextGenAt' = [nextGenAt EXCEPT !["emb"] = @ + PredictionSeconds]
    /\ startPass("emb", NoHolders)
    /\ UNCHANGED <<now, predVars, alertVars, confVars, mounted, polls, mountHist, countdown, dataRef, lastPoll, lastGen, scanVars>>

\* The button calls generate of the current render, with its holders.
EmbManual ==
    /\ mounted["emb"]
    /\ ~generating["emb"]
    /\ nextPass <= MaxPasses
    /\ \E holders \in EmbHolders : startPass("emb", holders)
    /\ UNCHANGED <<now, predVars, alertVars, confVars, mounted, polls, nextGenAt, mountHist, countdown, dataRef, lastPoll, lastGen, scanVars>>

\* generate returning early, on no result, without releasing the flag.
EmbGenDone_SkipKeepsFlag ==
    \E g \in {x \in genPasses : x.panel = "emb"} :
    LET holders == g.hist
        result == predictHolderTrend(holders.total, holders.exchange,
                                     holders.total - holders.exchange, holders.net)
        conf == adjustConfidence(Num(result.confidence), Num(50000)).v
        pred == NewPrediction(nextUid, "holder_trend", now, PredictionSeconds, "holder_trend",
                              "holder_trend", result.direction, holders.total, result.change, conf)
    IN  /\ IF holders.count = 0
           THEN UNCHANGED <<predictions, storage, nextUid, generating, countdown>>
           ELSE /\ \E saved \in BOOLEAN : addPrediction("emb", pred, saved)
                /\ nextUid' = nextUid + 1
                /\ countdown' = [countdown EXCEPT !["emb"] = 300]
                /\ generating' = [generating EXCEPT !["emb"] = FALSE]
        /\ genPasses' = genPasses \ {g}
        /\ lastGen' = [n |-> g.n, panel |-> "emb", f |-> g.hist]
        /\ UNCHANGED <<now, alertVars, confVars, mounted, polls, nextPass, nextGenAt, mountHist, dataRef, lastPoll, scanVars>>

\* handleGenerate of TopHolders and the rest of generate.
EmbGenDone ==
    \E g \in {x \in genPasses : x.panel = "emb"} :
    LET holders == g.hist
        result == predictHolderTrend(holders.total, holders.exchange,
                                     holders.total - holders.exchange, holders.net)
        conf == adjustConfidence(Num(result.confidence), Num(50000)).v
        pred == NewPrediction(nextUid, "holder_trend", now, PredictionSeconds, "holder_trend",
                              "holder_trend", result.direction, holders.total, result.change, conf)
    IN  /\ IF holders.count = 0
           THEN UNCHANGED <<predictions, storage, nextUid, countdown>>
           ELSE /\ \E saved \in BOOLEAN : addPrediction("emb", pred, saved)
                /\ nextUid' = nextUid + 1
                /\ countdown' = [countdown EXCEPT !["emb"] = 300]
        /\ generating' = [generating EXCEPT !["emb"] = FALSE]
        /\ genPasses' = genPasses \ {g}
        /\ lastGen' = [n |-> g.n, panel |-> "emb", f |-> g.hist]
        /\ UNCHANGED <<now, alertVars, confVars, mounted, polls, nextPass, nextGenAt, mountHist, dataRef, lastPoll, scanVars>>

EmbPollStart == PollStart("emb")

\* handleResolve of TopHolders returns and resolveExpired runs to its end.
EmbPollDone ==
    \E q \in {x \in polls : x.panel = "emb"} :
    \E f \in EmbFetches, known \in KnownHolderSums :
    LET actualValue == IF f.ok THEN f.v ELSE known
        value == [t \in AllTargets |-> actualValue]
        calls == ResolveCalls(q.expired, value, {t \in AllTargets : value[t] # 0})
        lists == ResolvedLists(predictions["emb"], calls)
    IN  /\ \E saved \in BOOLEAN : applyUpdates("emb", lists, saved)
        /\ polls' = polls \ {q}
        /\ lastPoll' = [n |-> q.n, panel |-> "emb", expired |-> q.expired,
                        ok |-> [t \in AllTargets |-> f.ok], value |-> value]
        /\ UNCHANGED <<now, nextUid, alertVars, confVars, mounted, generating, genPasses, nextPass, nextGenAt, mountHist, countdown, dataRef, lastGen, scanVars>>

EmbInit ==
    /\ now = 0
    /\ PredInit({NoItem, ArrayText(SavedEarlier(1))})
    /\ AlertInit({NoItem})
    /\ ConfIdle
    /\ PanelIdle
    /\ ScanIdle

EmbNext ==
    \/ TickSecond \/ TickPeriod
    \/ MountEmbedded \/ EmbTimer \/ EmbManual \/ EmbGenDone
    \/ EmbPollStart \/ EmbPollDone

SpecEmbedded == EmbInit /\ [][EmbNext]_vars

\* C5: when the actual-value fetch of a resolve poll fails, every expired
\* prediction the poll looked at stays as it was, unresolved with no
\* actualValue, accurate or error; so no prediction is resolved with a value
\* that did not come from a successful fetch.
C5_FailedFetchLeavesUnresolved ==
    [][lastPoll'.n # lastPoll.n =>
          \A k \in 1..Len(lastPoll'.expired) :
              ~lastPoll'.ok[lastPoll'.expired[k].target] =>
                  \A i \in 1..Len(predictions[lastPoll'.panel]) :
                      predictions[lastPoll'.panel][i].id = lastPoll'.expired[k].id
                          => predictions'[lastPoll'.panel][i] = predictions[lastPoll'.panel][i]]_vars

\* The request of fetchTopHolders failed and the expired holder_trend
\* prediction is resolved with the sum of the built-in list.
C5_Witness ==
    /\ lastPoll.panel = "emb"
    /\ ~lastPoll.ok["holder_trend"]
    /\ \E i \in 1..Len(predictions["emb"]) :
          /\ predictions["emb"][i].target = "holder_trend"
          /\ predictions["emb"][i].resolved
          /\ predictions["emb"][i].actualValue \in {Num(v) : v \in KnownHolderSums}

(***************************************************************************)
(* The triggers of the two managers: the dashboard's generation and the    *)
(* monitor's scan, each by its mount, its interval and its button.         *)
(***************************************************************************)
\* What the fetches of runScan can return together: everything failed;
\* a large deposit from a long-dormant sender while the price and the fee
\* rise; a small withdrawal in a quiet market.
ScanFetches ==
    { [txs |-> <<>>, changePercent24h |-> 0, fastest |-> 0,
       holders |-> <<>>, dormancy |-> [a \in {"a1"} |-> 0]],
      [txs |-> <<[from |-> "a1", amount |-> 60, type |-> "exchange_deposit"]>>,
       changePercent24h |-> 3000, fastest |-> 50,
       holders |-> <<[address |-> "h1", balance |-> 5000], [address |-> "h2", balance |-> 4000]>>,
       dormancy |-> [a \in {"a1"} |-> 400]],
      [txs |-> <<[from |-> "a1", amount |-> 20, type |-> "exchange_withdrawal"]>>,
       changePercent24h |-> 0, fastest |-> 10,
       holders |-> <<[address |-> "h1", balance |-> 5000]>>,
       dormancy |-> [a \in {"a1"} |-> 200]] }

ScanDone ==
    /\ \E sc \in scans, f \in ScanFetches, ok \in BOOLEAN : scanDone(sc, f, ok)
    /\ UNCHANGED <<now, predVars, confVars, monitorMounted, nextScanAt, nextPass,
                   mounted, generating, genPasses, polls, nextGenAt, mountHist, countdown, dataRef, lastPoll, lastGen>>

ToggleRule ==
    /\ monitorMounted
    /\ \E c \in Categories : toggleRule(c)
    /\ UNCHANGED <<now, predVars, alertVars, confVars, panelVars, monitorMounted, scanning, scans,
                   nextScanAt, prevHolders, feeHistory, checkedAddrs, scanned>>

TriggersInit ==
    /\ now = 0
    /\ PredInit({NoItem})
    /\ AlertInit({NoItem})
    /\ ConfIdle
    /\ PanelIdle
    /\ ScanIdle

TriggersNext ==
    \/ TickSecond \/ TickPeriod
    \/ MountDashboard \/ DashTimer \/ DashManual \/ DashGenDone
    \/ MountMonitor \/ ScanTimer \/ ScanManual \/ ScanDone

SpecTriggers == TriggersInit /\ [][TriggersNext]_vars

\* C3: at most one runScan pass and at most one generation per manager is in
\* flight at any time, for every interleaving of interval ticks, manual
\* triggers and fetch completions.
C3_OnePassInFlight ==
    /\ Cardinality(scans) <= 1
    /\ \A p \in Hooks : Cardinality({g \in genPasses : g.panel = p}) <= 1

\* Two generations of the dashboard are awaiting their fetches while a scan
\* is, and the flags say one of each.
C3_Witness ==
    /\ Cardinality({g \in genPasses : g.panel = "app"}) = 2
    /\ Cardinality(scans) = 1
    /\ generating["app"] /\ scanning

(***************************************************************************)
(* The rules of AlertMonitor over one lifetime of the component: its       *)
(* mount, its interval, its button, the completions of its scans and the   *)
(* rule switches.                                                          *)
(***************************************************************************)
Deposit(from, amount) == [from |-> from, amount |-> amount, type |-> "exchange_deposit"]
Holder(address, balance) == [address |-> address, balance |-> balance]

\* What the fetches of runScan can return together: nothing at all; one
\* deposit of 60 BTC from a sender dormant for 400 days, in a rising market;
\* the same from a second sender while a new address enters the holders; a
\* deposit of 20 BTC after 200 days; two deposits of which the one reaches
\* neither amount and the other neither age.
RuleFetches ==
    { [txs |-> <<>>, changePercent24h |-> 0, fastest |-> 0, holders |-> <<>>,
       dormancy |-> [a \in {"a1", "a2"} |-> 0]],
      [txs |-> <<Deposit("a1", 60)>>, changePercent24h |-> 3000, fastest |-> 50,
       holders |-> <<Holder("h1", 5000), Holder("h2", 4000)>>,
       dormancy |-> [a \in {"a1", "a2"} |-> 400]],
      [txs |-> <<Deposit("a2", 60)>>, changePercent24h |-> 0, fastest |-> 10,
       holders |-> <<Holder("h1", 5000), Holder("h3", 3000)>>,
       dormancy |-> [a \in {"a1", "a2"} |-> 400]],
      [txs |-> <<Deposit("a1", 20)>>, changePercent24h |-> 0, fastest |-> 10,
       holders |-> <<Holder("h1", 5000)>>,
       dormancy |-> [a \in {"a1", "a2"} |-> 200]],
      [txs |-> <<Deposit("a1", 9), Deposit("a2", 60)>>, changePercent24h |-> 0, fastest |-> 10,
       holders |-> <<>>,
       dormancy |-> [a \in {"a1", "a2"} |-> IF a = "a1" THEN 400 ELSE 180]] }

\* The switches the user flips: those of the two rules that a scan can skip.
Switches == {"dormant_activation", "new_whale_top100"}

RuleToggle ==
    /\ monitorMounted
    /\ \E c \in Switches : toggleRule(c)
    /\ UNCHANGED <<now, predVars, alertVars, confVars, panelVars, monitorMounted, scanning, scans,
                   nextScanAt, prevHolders, feeHistory, checkedAddrs, scanned>>

\* A scan completes; the storage accepts the saves.
RuleScanDone ==
    /\ \E sc \in scans, f \in RuleFetches : scanDone(sc, f, TRUE)
    /\ UNCHANGED <<now, predVars, confVars, monitorMounted, nextScanAt, nextPass,
                   mounted, generating, genPasses, polls, nextGenAt, mountHist, countdown, dataRef, lastPoll, lastGen>>

RulesInit ==
    /\ now = 0
    /\ PredInit({NoItem})
    /\ AlertInit({NoItem})
    /\ ConfIdle
    /\ PanelIdle
    /\ ScanIdle

RuleMount == nextPass <= MaxScans /\ MountMonitor
RuleTimer == nextPass <= MaxScans /\ ScanTimer
RuleManual == nextPass <= MaxScans /\ ScanManual

RulesNext ==
    \/ TickPeriod
    \/ RuleMount \/ RuleTimer \/ RuleManual \/ RuleScanDone \/ RuleToggle

SpecRules == RulesInit /\ [][RulesNext]_vars

\* A step in which a scan completes.
ScanCompletes == scanned'.n # scanned.n

\* The places in the alert list of the alerts of a category and a severity
\* that the step added at its front.
Emitted(c, severities) ==
    {i \in 1..(nextAlertId' - nextAlertId) :
        alerts'[i].category = c /\ alerts'[i].severity \in severities}

Severities == {"critical", "warning", "info"}

\* C15: for the transactions the dormant rule checks in a scan, the scan adds
\* one critical alert per transaction with dormantDays > 365 and amount >= 50,
\* one warning alert per other transaction with dormantDays > 180 and
\* amount >= 10, and no other alert of the rule; a scan whose one checked
\* transaction has amount 60 and dormantDays 400 adds exactly one critical
\* dormant_activation alert and leaves the rule triggered with its
\* triggerCount one higher than before.
C15_DormantRule ==
    [][(ScanCompletes /\ scanned'.seen["dormant_activation"].enabled /\ scanned'.f.txs # <<>>) =>
        LET f == scanned'.f
            toCheck == ToCheck(f.txs)
            isCritical(tx) == f.dormancy[tx.from] > 365 /\ tx.amount >= 50
            isWarning(tx) == ~isCritical(tx) /\ f.dormancy[tx.from] > 180 /\ tx.amount >= 10
            c == "dormant_activation"
        IN  /\ Cardinality(Emitted(c, {"critical"}))
                 = Cardinality({i \in 1..Len(toCheck) : isCritical(toCheck[i])})
            /\ Cardinality(Emitted(c, {"warning"}))
                 = Cardinality({i \in 1..Len(toCheck) : isWarning(toCheck[i])})
            /\ Emitted(c, {"info"}) = {}
            /\ (Len(toCheck) = 1 /\ toCheck[1].amount = 60 /\ f.dormancy[toCheck[1].from] = 400)
                 => /\ Cardinality(Emitted(c, Severities)) = 1
                    /\ Emitted(c, {"critical"}) # {}
                    /\ rules'[c].status = "triggered"
                    /\ rules'[c].triggerCount = rules[c].triggerCount + 1
      ]_vars

\* The interval's scan has found a sender dormant for 400 days moving 60 BTC,
\* as the scan of the mount had before it: two critical alerts of the rule
\* are in the list and the rule's triggerCount is 1.
C15_Witness ==
    /\ scanned.n = 2
    /\ scanned.f.txs = <<Deposit("a2", 60)>>
    /\ checkedAddrs = {"a1", "a2"}
    /\ Len(alerts) >= 2
    /\ Cardinality({i \in 1..Len(alerts) : alerts[i].category = "dormant_activation"
                                            /\ alerts[i].severity = "critical"}) = 2
    /\ rules["dormant_activation"].status = "triggered"
    /\ rules["dormant_activation"].triggerCount = 1

\* C16: the first scan to complete after the start adds no new-whale alert,
\* whatever holders it fetched; a later scan that evaluates the rule adds,
\* for each address of its list that is not in the list of the previous
\* evaluated scan, exactly one critical alert, and no other alert of the
\* rule; the list it fetched is the previous list of the next evaluation.
C16_NewWhaleRule ==
    [][ScanCompletes =>
        LET f == scanned'.f
            c == "new_whale_top100"
            evaluated == scanned'.seen[c].enabled /\ f.holders # <<>>
            entered == {i \in 1..Len(f.holders) : f.holders[i].address \notin prevHolders}
            alertsOf(i) == {j \in Emitted(c, {"critical"}) : alerts'[j].data = Num(f.holders[i].balance)}
        IN  /\ scanned.n = 0 => Emitted(c, Severities) = {}
            /\ Emitted(c, {"warning", "info"}) = {}
            /\ (~evaluated \/ prevHolders = {}) => Emitted(c, Severities) = {}
            /\ (evaluated /\ prevHolders # {}) =>
                 /\ \A i \in entered : Cardinality(alertsOf(i)) = 1
                 /\ Cardinality(Emitted(c, {"critical"})) = Cardinality(entered)
            /\ evaluated => prevHolders' = {f.holders[i].address : i \in 1..Len(f.holders)}
            /\ ~evaluated => prevHolders' = prevHolders
      ]_vars

\* The second scan found h3 among the holders where the first had found h1
\* and h2: one critical alert for h3 is in the list, none for h1.
C16_Witness ==
    /\ scanned.n = 2
    /\ scanned.f.holders = <<Holder("h1", 5000), Holder("h3", 3000)>>
    /\ prevHolders = {"h1", "h3"}
    /\ Cardinality({i \in 1..Len(alerts) : alerts[i].category = "new_whale_top100"}) = 1
    /\ \E i \in 1..Len(alerts) :
          /\ alerts[i].category = "new_whale_top100"
          /\ alerts[i].severity = "critical"
          /\ alerts[i].data = Num(3000)
    /\ rules["new_whale_top100"].status = "triggered"

\* C17: after every completed scan, every enabled rule has status triggered
\* if the scan added an alert of the rule and normal if it added none, so
\* that no enabled rule is left idle or checking, also when the scan fetched
\* no transactions or no holders.
C17_StatusAfterScan ==
    [][ScanCompletes =>
        \A c \in Categories :
            rules'[c].enabled =>
                rules'[c].status = IF Emitted(c, Severities) # {} THEN "triggered" ELSE "normal"
      ]_vars

\* The first scan fetched neither transactions nor holders: the two rules
\* that ran are normal, the dormant rule and the whale rule are enabled and
\* still idle.
C17_Witness ==
    /\ scanned.n = 1
    /\ scanned.f.txs = <<>> /\ scanned.f.holders = <<>>
    /\ \A c \in Categories : rules[c].enabled
    /\ rules["long_trap_signal"].status = "normal"
    /\ rules["derivatives_hedging"].status = "normal"
    /\ rules["dormant_activation"].status = "idle"
    /\ rules["new_whale_top100"].status = "idle"

\* C18: over the scans of the interval and of the button no rule's
\* triggerCount ever decreases, it increases in every scan that adds an alert
\* of the rule, and a scan adds one alert per finding of a rule: one per
\* dormant sender, one per address that entered the holders, at most one of
\* each of the other two rules.
C18_TriggerCountGrows ==
    [][/\ \A c \in Categories : rules'[c].triggerCount >= rules[c].triggerCount
       /\ ScanCompletes =>
            LET f == scanned'.f
                toCheck == ToCheck(f.txs)
                dormant == {i \in 1..Len(toCheck) :
                               \/ f.dormancy[toCheck[i].from] > 365 /\ toCheck[i].amount >= 50
                               \/ f.dormancy[toCheck[i].from] > 180 /\ toCheck[i].amount >= 10}
                entered == {i \in 1..Len(f.holders) :
                               prevHolders # {} /\ f.holders[i].address \notin prevHolders}
            IN  /\ \A c \in Categories :
                      Emitted(c, Severities) # {} => rules'[c].triggerCount > rules[c].triggerCount
                /\ scanned'.seen["dormant_activation"].enabled =>
                      Cardinality(Emitted("dormant_activation", Severities)) = Cardinality(dormant)
                /\ scanned'.seen["new_whale_top100"].enabled =>
                      Cardinality(Emitted("new_whale_top100", Severities)) = Cardinality(entered)
                /\ Cardinality(Emitted("long_trap_signal", Severities)) <= 1
                /\ Cardinality(Emitted("derivatives_hedging", Severities)) <= 1
      ]_vars

\* The scan of the mount raised the long-trap rule's triggerCount to 1 and
\* the interval's scan, finding nothing, has written it back to 0.
C18_Witness ==
    /\ scanned.n = 2
    /\ scanned.seen = InitRules
    /\ scanned.f.txs = <<>>
    /\ \E i \in 1..Len(alerts) : alerts[i].category = "long_trap_signal"
    /\ rules["long_trap_signal"].status = "normal"
    /\ rules["long_trap_signal"].triggerCount = 0

(***************************************************************************)
(* The toast feed: alerts arrive second by second, the panel dismisses     *)
(* toasts, and a timeout runs its callback in the second it falls due.     *)
(***************************************************************************)
\* One second passes; a timeout that is due runs before the clock moves on.
ToastClock ==
    /\ now < MaxToastClock
    /\ \A tm \in toastTimers : now < tm.due
    /\ now' = now + 1
    /\ UNCHANGED <<predVars, alertVars, confVars, panelVars, scanVars>>

\* A rule adds an alert; the storage accepts the save.
ToastAdd ==
    /\ nextAlertId <= MaxToastAdds
    /\ addAlert("critical", "new_whale_top100", "new whale", Num(5000), TRUE)
    /\ UNCHANGED <<now, predVars, confVars, panelVars, scanVars>>

\* The panel dismisses the newest or the oldest toast of the feed.
ToastDismissEnd ==
    /\ \E i \in {1, Len(toasts)} \cap (1..Len(toasts)) : dismissToast(toasts[i].id)
    /\ UNCHANGED <<now, predVars, confVars, panelVars, scanVars>>

ToastsInit ==
    /\ now = 0
    /\ PredInit({NoItem})
    /\ AlertInit({NoItem})
    /\ ConfIdle
    /\ PanelIdle
    /\ ScanIdle

ToastsNext == ToastClock \/ ToastAdd \/ ToastDismissEnd \/ ToastExpire

SpecToasts == ToastsInit /\ [][ToastsNext]_vars

ToastIds(list) == {list[i].id : i \in 1..Len(list)}

\* C19: the toast feed holds at most MAX_TOASTS toasts, the most recent
\* first; no toast is in the feed later than 5 seconds after it was added,
\* each having its timeout pending until then; a toast leaves the feed by its
\* timeout 5 seconds after it was added, by dismissToast, or as the oldest of
\* a full feed when an alert is added; and a step that takes toasts off the
\* feed without adding an alert (a timeout or dismissToast) leaves the alert
\* list and the saved list as they were.
C19_ToastFeed ==
    /\ [](/\ Len(toasts) <= MAX_TOASTS
          /\ \A i \in 1..(Len(toasts) - 1) : toasts[i].id > toasts[i + 1].id
          /\ \A i \in 1..Len(toasts) :
                /\ now <= toasts[i].timestamp + 5
                /\ [id |-> toasts[i].id, due |-> toasts[i].timestamp + 5] \in toastTimers)
    /\ [][LET gone == ToastIds(toasts) \ ToastIds(toasts') IN
          /\ (gone # {} /\ nextAlertId' # nextAlertId) =>
                /\ Len(toasts) = MAX_TOASTS
                /\ gone = {toasts[MAX_TOASTS].id}
          /\ (gone # {} /\ nextAlertId' = nextAlertId) =>
                /\ Cardinality(gone) = 1
                /\ alerts' = alerts /\ alertStorage' = alertStorage
                /\ \A tm \in toastTimers : tm.id \in gone => tm \notin toastTimers'
          /\ (toastTimers' # toastTimers /\ nextAlertId' = nextAlertId) =>
                alerts' = alerts /\ alertStorage' = alertStorage
         ]_vars

\* Six alerts were added, the last of them a second after the page opened;
\* five seconds after the page opened its toast alone is left in the feed,
\* with a second to go, and the list still holds the six alerts.
C19_Witness ==
    /\ Len(alerts) = 6
    /\ nextAlertId = 7
    /\ now = 5
    /\ ToastIds(toasts) = {6}
    /\ toasts[1].timestamp = 1
    /\ toastTimers = {[id |-> 6, due |-> 6]}
    /\ alertStorage = saveAlertsText(alerts)

(***************************************************************************)
(* The read flags: alerts are added, marked and cleared on a list that     *)
(* starts empty or with one saved alert.                                   *)
(***************************************************************************)
ReadInit ==
    /\ now = 0
    /\ PredInit({NoItem})
    /\ AlertInit({NoItem, ArrayText(SavedAlerts(1))})
    /\ ConfIdle
    /\ PanelIdle
    /\ ScanIdle

ReadNext == AlertAdd \/ AlertMarkRead \/ AlertMarkAllRead \/ AlertClearAll

SpecRead == ReadInit /\ [][ReadNext]_vars

\* The alert of the list with the id, if it is there.
AlertsWithId(list, id) == {list[i] : i \in {j \in 1..Len(list) : list[j].id = id}}

\* C20: a step of markRead(id) keeps the list's length and order and changes
\* nothing but the read flag of the alerts with that id, which it sets; a
\* step of markAllRead changes nothing but read flags, sets them all, and
\* leaves an unread count of 0; in no step does an alert that stays in the
\* list go from read to unread; and the unread count is the number of alerts
\* of the list whose read flag is false.
C20_ReadFlags ==
    /\ [](unreadCount = Len(SelectSeq(alerts, LAMBDA a : a.read = FALSE)))
    /\ [][/\ \A id \in ToastIds(alerts) \cup {0 - MAX_ALERTS} :
                alerts' = markReadList(alerts, id) =>
                    /\ Len(alerts') = Len(alerts)
                    /\ \A i \in 1..Len(alerts) :
                          /\ alerts[i].id # id => alerts'[i] = alerts[i]
                          /\ alerts[i].id = id => alerts'[i] = [alerts[i] EXCEPT !.read = TRUE]
          /\ alerts' = markAllReadList(alerts) =>
                /\ Len(alerts') = Len(alerts)
                /\ \A i \in 1..Len(alerts) : alerts'[i] = [alerts[i] EXCEPT !.read = TRUE]
                /\ unreadCount' = 0
          /\ \A a \in {alerts[i] : i \in 1..Len(alerts)} :
                a.read => \A b \in AlertsWithId(alerts', a.id) : b.read
         ]_vars

\* Of three alerts the oldest was marked by markRead; the two newer ones
\* are unread, the unread count is 2 and the list is saved as it is.
C20_Witness ==
    /\ Len(alerts) = 3
    /\ alerts[3].read /\ ~alerts[1].read /\ ~alerts[2].read
    /\ unreadCount = 2
    /\ alertStorage = saveAlertsText(alerts)

(***************************************************************************)
(* Generation passes and their fetches.                                    *)
(***************************************************************************)
\* A step in which a generation pass of the dashboard completes.
DashGenCompletes == lastGen'.n # lastGen.n /\ lastGen'.panel = "app"

\* The data of a dashboard slot in the fetches f of a pass is missing: the
\* fetch behind it failed, or the price history is not longer than 30.
Unavailable(f, t) ==
    CASE t = "price" -> ~f.history.ok \/ ~f.history.v.long
      [] t = "tx_volume" -> ~f.mempool.ok
      [] t \in {"whale_movement", "large_tx"} -> ~f.txs.ok

\* C21: when a generation pass of the dashboard completes and the data of a
\* slot was unavailable in it, the pass adds no prediction of that slot to
\* the list or to the saved list, and the slot's unresolved predictions stay
\* in the list as they were.
C21_NoDataNoPrediction ==
    [][DashGenCompletes =>
        \A t \in Targets :
            Unavailable(lastGen'.f, t) =>
                /\ \A i \in 1..Len(predictions'["app"]) :
                      predictions'["app"][i].target = t => predictions'["app"][i].uid < nextUid
                /\ \A i \in 1..Len(loadPredictions(storage')) :
                      loadPredictions(storage')[i].target = t
                          => loadPredictions(storage')[i].uid < nextUid
                /\ \A i \in 1..Len(predictions["app"]) :
                      (predictions["app"][i].target = t /\ ~predictions["app"][i].resolved)
                          => \E j \in 1..Len(predictions'["app"]) :
                                predictions'["app"][j] = predictions["app"][i]
      ]_vars

\* Every fetch of the first pass failed, no price prediction was made, and
\* a tx_volume prediction on a mempool of 0 transactions is in the list and
\* in the saved list.
C21_Witness ==
    /\ lastGen.panel = "app"
    /\ ~lastGen.f.mempool.ok /\ ~lastGen.f.history.ok
    /\ \A i \in 1..Len(predictions["app"]) : predictions["app"][i].target # "price"
    /\ \E i \in 1..Len(predictions["app"]) :
          /\ predictions["app"][i].target = "tx_volume"
          /\ predictions["app"][i].currentValue = 0
          /\ ~predictions["app"][i].resolved
    /\ \E i \in 1..Len(loadPredictions(storage)) : loadPredictions(storage)[i].target = "tx_volume"

(***************************************************************************)
(* Scans of which one fetch rejects.                                       *)
(***************************************************************************)
\* The outcomes of the five fetches when all succeed: a deposit of 60 BTC
\* from a sender dormant for 400 days, the price up 3%, a fee of 50, two
\* holders; or a later look with another sender and another holder.
AllFetched ==
    { [txs |-> Got(<<Deposit("a1", 60)>>), price |-> Got(3000), mempool |-> Got(50),
       holders |-> Got(<<Holder("h1", 5000), Holder("h2", 4000)>>), flows |-> Got(0),
       dormancy |-> [a \in {"a1", "a2"} |-> 400]],
      [txs |-> Got(<<Deposit("a2", 20)>>), price |-> Got(0), mempool |-> Got(10),
       holders |-> Got(<<Holder("h1", 5000), Holder("h3", 3000)>>), flows |-> Got(0),
       dormancy |-> [a \in {"a1", "a2"} |-> 100]] }

\* The same outcomes with one of the fetches rejecting, or none.
RawFetches ==
    AllFetched \cup
    {[r EXCEPT ![x] = Caught(IF x \in {"txs", "holders"} THEN <<>> ELSE 0)] :
        r \in AllFetched, x \in ScanSources}

FailScanDone ==
    /\ \E sc \in scans, r \in RawFetches : scanDone(sc, ScanInputs(r), TRUE)
    /\ UNCHANGED <<now, predVars, confVars, monitorMounted, nextScanAt, nextPass,
                   mounted, generating, genPasses, polls, nextGenAt, mountHist, countdown, dataRef,
                   lastPoll, lastGen>>

FailuresInit ==
    /\ now = 0
    /\ PredInit({NoItem})
    /\ AlertInit({NoItem})
    /\ ConfIdle
    /\ PanelIdle
    /\ ScanIdle

FailuresNext == TickPeriod \/ RuleMount \/ RuleTimer \/ RuleManual \/ FailScanDone

SpecFailures == FailuresInit /\ [][FailuresNext]_vars

\* C23: in a scan of which a fetch rejected, a rule that reads none of the
\* rejected fetches is evaluated as it is when nothing rejects: if the scan
\* sees it enabled and its own list (the transactions of the dormant rule,
\* the holders of the whale rule) is not empty, it ends the scan triggered
\* when the scan added an alert of it and normal otherwise, checked now; and
\* the values of the fetches that did not reject reach the rules unchanged.
C23_FailureIsLocal ==
    [][(ScanCompletes /\ \E x \in ScanSources : ~scanned'.f.raw[x].ok) =>
        LET f == scanned'.f
            failed == {x \in ScanSources : ~f.raw[x].ok}
            evaluated(c) ==
                /\ scanned'.seen[c].enabled
                /\ c = "dormant_activation" => f.raw.txs.v # <<>>
                /\ c = "new_whale_top100" => f.raw.holders.v # <<>>
        IN  /\ \A c \in Categories :
                  (Uses(c) \cap failed = {} /\ evaluated(c)) =>
                      /\ rules'[c].lastCheck = now
                      /\ rules'[c].status =
                            IF Emitted(c, Severities) # {} THEN "triggered" ELSE "normal"
            /\ "txs" \notin failed => f.txs = f.raw.txs.v
            /\ "price" \notin failed => f.changePercent24h = f.raw.price.v
            /\ "mempool" \notin failed => f.fastest = f.raw.mempool.v
            /\ "holders" \notin failed => f.holders = f.raw.holders.v
      ]_vars

\* The transactions could not be fetched in the second scan, and the whale
\* rule has found the holder that entered: it is triggered.
C23_Witness ==
    /\ scanned.n = 2
    /\ ~scanned.f.raw.txs.ok
    /\ scanned.f.raw.holders.ok
    /\ scanned.f.txs = <<>>
    /\ rules["new_whale_top100"].status = "triggered"
    /\ \E i \in 1..Len(alerts) : alerts[i].category = "new_whale_top100"
    /\ rules["long_trap_signal"].status = "normal"

\* C26: a scan that starts while a rule is switched off, the rule staying
\* off until the scan completes, adds no alert of the rule's category and
\* leaves the rule's status, lastCheck and triggerCount as they were.
C26_DisabledRuleIsSkipped ==
    [][ScanCompletes =>
        \A c \in scanned'.off :
            ~rules[c].enabled =>
                /\ Emitted(c, Severities) = {}
                /\ rules'[c] = rules[c]
      ]_vars

\* The dormant rule was switched off before the interval's scan started and
\* is still off; that scan has added a dormant_activation alert and set the
\* rule triggered.
C26_Witness ==
    /\ scanned.n = 2
    /\ "dormant_activation" \in scanned.off
    /\ scanned.seen = InitRules
    /\ ~rules["dormant_activation"].enabled
    /\ rules["dormant_activation"].status = "triggered"
    /\ rules["dormant_activation"].lastCheck = now
    /\ \E i \in DOMAIN alerts : /\ alerts[i].category = "dormant_activation"
                                /\ alerts[i].timestamp = now

(***************************************************************************)
(* Scans over deposits and withdrawals                                     *)
(***************************************************************************)

Withdrawal(from, amount) == [from |-> from, amount |-> amount, type |-> "exchange_withdrawal"]

\* What the fetches of runScan can return for rule 2: no, 30 or 70 BTC
\* deposited against no or 10 BTC withdrawn, the price 2% or 3% up.
TrapFetches ==
    { [txs |-> (IF d > 0 THEN <<Deposit("a1", d)>> ELSE <<>>)
               \o (IF w > 0 THEN <<Withdrawal("a2", w)>> ELSE <<>>),
       changePercent24h |-> p, fastest |-> 10, holders |-> <<Holder("h1", 5000)>>,
       dormancy |-> [a \in {"a1", "a2"} |-> 0]] :
      d \in {0, 30, 70}, w \in {0, 10}, p \in {2000, 3000} }

TrapScanDone ==
    /\ \E sc \in scans, f \in TrapFetches : scanDone(sc, f, TRUE)
    /\ UNCHANGED <<now, predVars, confVars, monitorMounted, nextScanAt, nextPass,
                   mounted, generating, genPasses, polls, nextGenAt, mountHist, countdown, dataRef,
                   lastPoll, lastGen>>

TrapInit ==
    /\ now = 0
    /\ PredInit({NoItem})
    /\ AlertInit({NoItem})
    /\ ConfIdle
    /\ PanelIdle
    /\ ScanIdle

TrapNext == TickPeriod \/ RuleMount \/ RuleTimer \/ RuleManual \/ TrapScanDone

SpecLongTrap == TrapInit /\ [][TrapNext]_vars

\* C30: a scan that evaluates the long-trap rule adds at most one
\* long_trap_signal alert: one warning when the ratio of the BTC deposited to
\* the BTC withdrawn is over 2 and the 24h change over 2%, otherwise one info
\* when the ratio is over 3, otherwise none and the rule ends normal.  With
\* nothing withdrawn the ratio is 10 when something was deposited and below
\* both thresholds when nothing was.
C30_LongTrapRule ==
    [][(ScanCompletes /\ scanned'.seen["long_trap_signal"].enabled) =>
        LET f == scanned'.f
            d == AmountOf(f.txs, "exchange_deposit")
            w == AmountOf(f.txs, "exchange_withdrawal")
            over(k) == IF w > 0 THEN d > k * w ELSE d > 0
            c == "long_trap_signal"
            all == Emitted(c, Severities)
        IN  /\ Cardinality(all) <= 1
            /\ IF over(2) /\ f.changePercent24h > 2000
               THEN /\ Cardinality(Emitted(c, {"warning"})) = 1
                    /\ rules'[c].status = "triggered"
               ELSE IF over(3)
               THEN /\ Cardinality(Emitted(c, {"info"})) = 1
                    /\ rules'[c].status = "triggered"
               ELSE /\ all = {}
                    /\ rules'[c].status = "normal"
            /\ (w = 0 /\ d > 0) => \A i \in all : alerts'[i].data = Num(1000)
      ]_vars

\* Nothing was withdrawn and 30 BTC deposited while the price was 2% up: the
\* ratio is 10, and the second scan has added the info alert, not the warning.
C30_Witness ==
    /\ scanned.n = 2
    /\ AmountOf(scanned.f.txs, "exchange_withdrawal") = 0
    /\ AmountOf(scanned.f.txs, "exchange_deposit") = 30
    /\ scanned.f.changePercent24h = 2000
    /\ rules["long_trap_signal"].status = "triggered"
    /\ \E i \in DOMAIN alerts : /\ alerts[i].category = "long_trap_signal"
                                /\ alerts[i].severity = "info"
                                /\ alerts[i].timestamp = now
                                /\ alerts[i].data = Num(1000)

(***************************************************************************)
(* The sign of the aggregated change                                       *)
(***************************************************************************)

\* C29: the change aggregateSignals returns has the sign of its direction:
\* not negative when the direction is up, not positive when it is down, and 0
\* when it is neutral, whatever part of the total weight the dominant one is.
C29_ChangeHasSignOfDirection ==
    cResult # NoResult =>
        /\ cResult.direction = "up" => cResult.change >= 0
        /\ cResult.direction = "down" => cResult.change <= 0
        /\ cResult.direction = "neutral" => cResult.change = 0

\* aggregateSignals has returned up with a negative change: the up signals
\* outweigh the down ones and are less than half of the total weight.
C29_Witness ==
    /\ cResult # NoResult
    /\ cResult.direction = "up"
    /\ cResult.change < 0
    /\ 2 * WeightOf(cSignals, {"up"}) < WeightOf(cSignals, Directions)
    /\ 10 * WeightOf(cSignals, {"up"}) > 12 * WeightOf(cSignals, {"down"})

(***************************************************************************)
(* The ids of the predictions                                              *)
(***************************************************************************)

\* C24: no two predictions of a list have the same id.
C24_IdsAreUnique ==
    \A h \in Hooks : \A i, j \in DOMAIN predictions[h] :
        predictions[h][i].id = predictions[h][j].id => i = j

\* Two generations of the dashboard have completed within one second: the
\* list holds two price predictions created then, with one id.
C24_Witness ==
    \E i, j \in DOMAIN predictions["app"] :
        /\ i < j
        /\ predictions["app"][i].id = predictions["app"][j].id
        /\ predictions["app"][i].target = "price"
        /\ predictions["app"][i].createdAt = now
        /\ predictions["app"][j].createdAt = now
        /\ predictions["app"][i].uid # predictions["app"][j].uid

(***************************************************************************)
(* Results that arrive late                                                *)
(***************************************************************************)

\* C25: the fetches of a generation that return after a later generation of
\* the dashboard has started add no prediction, and the fetches of a scan that
\* return after a later scan has started add no alert.
C25_LateResultIsDiscarded ==
    [][/\ (/\ DashGenCompletes
           /\ \/ lastGen.panel = "app" /\ lastGen.n > lastGen'.n
              \/ \E g \in genPasses : g.panel = "app" /\ g.n > lastGen'.n)
          => /\ predictions'["app"] = predictions["app"]
             /\ storage' = storage
       /\ (/\ ScanCompletes
           /\ \/ scanned.n > scanned'.n
              \/ \E sc \in scans : sc.n > scanned'.n)
          => /\ alerts' = alerts
             /\ alertStorage' = alertStorage
      ]_vars

\* The first generation of the dashboard has completed after the second one:
\* the list holds the four predictions of each.
C25_Witness ==
    /\ lastGen.panel = "app"
    /\ lastGen.n = 1
    /\ nextUid = 9
    /\ Len(predictions["app"]) = 8
    /\ \A i \in 1..4 : predictions["app"][i].createdAt = now

(***************************************************************************)
(* Two hook instances over the one item: the App-level hook, which the     *)
(* PredictionDashboard writes through, and the hook of the panel embedded  *)
(* in TopHolders.  usePredictions takes no argument: both read and write   *)
(* STORAGE_KEY.                                                            *)
(***************************************************************************)
SharedInit ==
    /\ now = 0
    /\ PredInit({NoItem})
    /\ AlertInit({NoItem})
    /\ ConfIdle
    /\ PanelIdle
    /\ ScanIdle

SharedNext ==
    \/ TickPeriod
    \/ MountDashboard \/ DashGenDone \/ DashPollStart \/ DashPollDone
    \/ MountEmbedded \/ EmbManual \/ EmbGenDone \/ EmbPollStart \/ EmbPollDone

SpecShared == SharedInit /\ [][SharedNext]_vars

\* The targets whose actual value the resolveExpired of a panel fetches: the
\* dashboard fetches one per target of its own, the embedded panel the one
\* of its targetType.
FetchedTargets(p) == IF p = "emb" THEN {"holder_trend"} ELSE Targets

\* The predictions of a list a step has resolved.
ResolvedNow(p) ==
    {i \in DOMAIN predictions'[p] :
        /\ predictions'[p][i].resolved
        /\ \E j \in DOMAIN predictions[p] : /\ predictions[p][j].uid = predictions'[p][i].uid
                                            /\ ~predictions[p][j].resolved}

\* C27: every prediction a resolve poll resolves gets the actual value the
\* poll fetched for the prediction's own target.
C27_ResolvedWithOwnTarget ==
    [][lastPoll'.n # lastPoll.n =>
        \A i \in ResolvedNow(lastPoll'.panel) :
            LET q == predictions'[lastPoll'.panel][i]
            IN  /\ q.target \in FetchedTargets(lastPoll'.panel)
                /\ q.actualValue = Num(lastPoll'.value[q.target])
      ]_vars

\* The embedded panel has loaded the predictions of the dashboard, and its
\* poll has resolved the price prediction with the sum of the holders'
\* balances.
C27_Witness ==
    /\ lastPoll.panel = "emb"
    /\ \E i \in DOMAIN predictions["emb"] :
          /\ predictions["emb"][i].target = "price"
          /\ predictions["emb"][i].resolved
          /\ predictions["emb"][i].actualValue = Num(2650)
          /\ \E j \in DOMAIN loadPredictions(storage) :
                loadPredictions(storage)[j] = JSONPrediction(predictions["emb"][i])

UidsOf(list) == {list[i].uid : i \in DOMAIN list}

\* C28: when a hook instance adds or resolves, every prediction in the item
\* that is in the list of another instance is still in the item afterwards.
C28_OtherInstanceKeepsItsOwn ==
    [][\A h \in Hooks :
          predictions'[h] # predictions[h] =>
              \A o \in Hooks \ {h} :
                  UidsOf(loadPredictions(storage)) \cap UidsOf(predictions[o])
                      \subseteq UidsOf(loadPredictions(storage'))
      ]_vars

\* The embedded panel had saved its holder_trend prediction; the dashboard
\* has then saved its list, and the item no longer holds that prediction.
C28_Witness ==
    /\ lastGen.panel = "app"
    /\ \E i \in DOMAIN predictions["emb"] :
          /\ predictions["emb"][i].target = "holder_trend"
          /\ predictions["emb"][i].uid \notin UidsOf(loadPredictions(storage))
    /\ UidsOf(predictions["app"]) # {}
    /\ UidsOf(predictions["app"]) = UidsOf(loadPredictions(storage))

(***************************************************************************)
(* Passes under fair scheduling: every pending fetch settles, so a pass    *)
(* that is awaiting its fetches eventually runs on.                        *)
(***************************************************************************)

\* onGenerate of the embedded panel rejects: generate goes through its catch.
EmbGenThrows ==
    \E g \in {x \in genPasses : x.panel = "emb"} :
        /\ generating' = [generating EXCEPT !["emb"] = FALSE]
        /\ genPasses' = genPasses \ {g}
        /\ lastGen' = [n |-> g.n, panel |-> "emb", f |-> g.hist]
        /\ UNCHANGED <<now, predVars, alertVars, confVars, mounted, polls, nextPass, nextGenAt,
                       mountHist, countdown, dataRef, lastPoll, scanVars>>

\* What the fetches of a scan return here: nothing, or a deposit of 60 BTC
\* from a sender dormant for 400 days.
FairFetches ==
    { [txs |-> <<>>, changePercent24h |-> 0, fastest |-> 0, holders |-> <<>>,
       dormancy |-> [a \in {"a1", "a2"} |-> 0]],
      [txs |-> <<Deposit("a1", 60)>>, changePercent24h |-> 3000, fastest |-> 50,
       holders |-> <<Holder("h1", 5000)>>,
       dormancy |-> [a \in {"a1", "a2"} |-> 400]] }

FairScanDone ==
    /\ \E sc \in scans, f \in FairFetches : scanDone(sc, f, TRUE)
    /\ UNCHANGED <<now, predVars, confVars, monitorMounted, nextScanAt, nextPass,
                   mounted, generating, genPasses, polls, nextGenAt, mountHist, countdown, dataRef,
                   lastPoll, lastGen>>

FairInit ==
    /\ now = 0
    /\ PredInit({NoItem})
    /\ AlertInit({NoItem})
    /\ ConfIdle
    /\ PanelIdle
    /\ ScanIdle

FairNext ==
    \/ TickPeriod
    \/ MountEmbedded \/ EmbTimer \/ EmbManual \/ EmbGenDone \/ EmbGenThrows
    \/ RuleMount \/ RuleTimer \/ RuleManual \/ FairScanDone

SpecFair ==
    /\ FairInit
    /\ [][FairNext]_vars
    /\ WF_vars(EmbGenThrows \/ EmbGenDone)
    /\ WF_vars(FairScanDone)

\* A step in which a generation ends.
GenCompletes == lastGen'.n # lastGen.n

\* C22: a generation that ends, by whichever path, leaves the generating flag
\* of its panel released, and a scan that ends leaves the scanning flag
\* released; and whenever generations (scans) are awaiting their fetches,
\* eventually none is.
C22_PassesFinish ==
    /\ [][/\ GenCompletes => ~generating'[lastGen'.panel]
          /\ ScanCompletes => ~scanning']_vars
    /\ (genPasses # {}) ~> (genPasses = {})
    /\ (scans # {}) ~> (scans = {})

\* The generate of the embedded panel has returned early, without a result,
\* and the flag is released; a scan has ended too.
C22_Witness ==
    /\ lastGen.panel = "emb"
    /\ lastGen.f.count = 0
    /\ ~generating["emb"]
    /\ genPasses = {}
    /\ predictions["emb"] = <<>>
    /\ scanned.n > 0
    /\ ~scanning
    /\ scans = {}

(***************************************************************************)
(* The fee window of rule 3, from a monitor that has run k quiet scans:    *)
(* scans that found no transaction and no holder and the fastest fee 10.   *)
(***************************************************************************)

\* The rules after a quiet scan: rules 2 and 3 ran and are normal, rules 1
\* and 4 were skipped on their empty lists.
QuietRules ==
    [c \in Categories |->
        IF c \in {"long_trap_signal", "derivatives_hedging"}
        THEN [InitRules[c] EXCEPT !.status = "normal"]
        ELSE InitRules[c]]

QuietScans == {0, 1, 11, 12}

FeeInit ==
    /\ now = 0
    /\ PredInit({NoItem})
    /\ AlertInit({NoItem})
    /\ ConfIdle
    /\ PanelIdle
    /\ \E k \in QuietScans :
          /\ monitorMounted = (k > 0)
          /\ scanning = FALSE
          /\ scans = {}
          /\ rules = IF k > 0 THEN QuietRules ELSE InitRules
          /\ nextScanAt = IF k > 0 THEN ScanSeconds ELSE 0
          /\ prevHolders = {}
          /\ feeHistory = [i \in 1..k |-> 10]
          /\ checkedAddrs = {}
          /\ scanned = NoScan

\* What the fetches of runScan can return for rule 3: the fastest fee 10, 20
\* or 30, with no transaction, with a deposit of 60 BTC, or with one of 50.
FeeFetches ==
    { [txs |-> t, changePercent24h |-> 0, fastest |-> fee, holders |-> <<>>,
       dormancy |-> [a \in {"a1", "a2"} |-> 0]] :
      t \in {<<>>, <<Deposit("a1", 60), Withdrawal("a2", 60)>>,
             <<Deposit("a1", 50), Withdrawal("a2", 60)>>},
      fee \in {10, 20, 30} }

FeeScanDone ==
    /\ \E sc \in scans, f \in FeeFetches : scanDone(sc, f, TRUE)
    /\ UNCHANGED <<now, predVars, confVars, monitorMounted, nextScanAt, nextPass,
                   mounted, generating, genPasses, polls, nextGenAt, mountHist, countdown, dataRef,
                   lastPoll, lastGen>>

FeeNext == TickPeriod \/ RuleMount \/ RuleTimer \/ RuleManual \/ FeeScanDone

SpecFees == FeeInit /\ [][FeeNext]_vars

\* C31: the fee window never holds more than 12 samples; a scan that
\* evaluates the hedging rule appends the fee it fetched and, when that makes
\* 13, drops the oldest; the scan adds no hedging alert while the window
\* holds fewer than 3 samples, and otherwise adds exactly one warning if the
\* fee is over twice the mean of the other samples of the window and a
\* deposit of more than 50 BTC is among the scan's transactions, and none
\* if not.
C31_FeeWindow ==
    /\ [](Len(feeHistory) <= 12)
    /\ [][(ScanCompletes /\ scanned'.seen["derivatives_hedging"].enabled) =>
            LET f == scanned'.f
                others == SubSeq(feeHistory', 1, Len(feeHistory') - 1)
                spike == f.fastest * Len(others) > 2 * SumSeq(others)
                large == \E i \in DOMAIN f.txs : /\ f.txs[i].type = "exchange_deposit"
                                                 /\ f.txs[i].amount > 50
                c == "derivatives_hedging"
            IN  /\ feeHistory' = IF Len(feeHistory) < 12
                                 THEN Append(feeHistory, f.fastest)
                                 ELSE Append(Tail(feeHistory), f.fastest)
                /\ Emitted(c, {"critical", "info"}) = {}
                /\ Cardinality(Emitted(c, {"warning"})) =
                      IF Len(feeHistory') >= 3 /\ spike /\ large THEN 1 ELSE 0
          ]_vars

\* The window was full of fees of 10; the scan fetched the fee 30 with a
\* deposit of 60 BTC: the oldest sample is gone, the window holds 12 and
\* ends with 30, and the scan has added the warning.
C31_Witness ==
    /\ scanned.n > 0
    /\ scanned.f.fastest = 30
    /\ Len(feeHistory) = 12
    /\ feeHistory[12] = 30
    /\ \A i \in 1..11 : feeHistory[i] = 10
    /\ alerts # <<>>
    /\ alerts[1].category = "derivatives_hedging"
    /\ alerts[1].severity = "warning"
    /\ rules["derivatives_hedging"].status = "triggered"

\* C32: a scan whose mempool fetch rejected leaves the fee window as it was.
C32_FailedFetchAddsNoSample ==
    [][(ScanCompletes /\ ~scanned'.f.raw.mempool.ok) => feeHistory' = feeHistory]_vars

\* The mempool fetch of the second scan rejected while the hedging rule was
\* on, and the window has gained the sample 0 of the default.
C32_Witness ==
    /\ scanned.n = 2
    /\ ~scanned.f.raw.mempool.ok
    /\ scanned.seen["derivatives_hedging"].enabled
    /\ Len(feeHistory) = 2
    /\ feeHistory[2] = 0
    /\ feeHistory[1] > 0

(***************************************************************************)
(* The lookups of rule 1                                                   *)
(***************************************************************************)

Senders == <<"a1", "a2", "a3", "a4", "a5", "a6", "a7", "a8", "a9", "a10", "a11">>

\* What fetchLargeTransactions can return for rule 1, every sender dormant
\* for 400 days: no transaction, one deposit, two deposits of one sender,
\* eleven deposits of eleven senders.
DormantFetches ==
    { [txs |-> t, changePercent24h |-> 0, fastest |-> 10, holders |-> <<>>,
       dormancy |-> [a \in {Senders[i] : i \in DOMAIN Senders} |-> 400]] :
      t \in { <<>>,
              <<Deposit("a1", 60)>>,
              <<Deposit("a1", 60), Deposit("a1", 70)>>,
              [i \in DOMAIN Senders |-> Deposit(Senders[i], 60)] } }

DormantScanDone ==
    /\ \E sc \in scans, f \in DormantFetches : scanDone(sc, f, TRUE)
    /\ UNCHANGED <<now, predVars, confVars, monitorMounted, nextScanAt, nextPass,
                   mounted, generating, genPasses, polls, nextGenAt, mountHist, countdown, dataRef,
                   lastPoll, lastGen>>

DormantInit ==
    /\ now = 0
    /\ PredInit({NoItem})
    /\ AlertInit({NoItem})
    /\ ConfIdle
    /\ PanelIdle
    /\ ScanIdle

DormantNext == TickPeriod \/ RuleMount \/ RuleTimer \/ RuleManual \/ DormantScanDone

SpecDormant == DormantInit /\ [][DormantNext]_vars

\* C33: a scan adds at most 10 dormant_activation alerts, and at most one
\* per source address of its transactions that no earlier scan has looked up.
C33_OneLookupPerAddress ==
    [][ScanCompletes =>
        LET f == scanned'.f
            fresh == {f.txs[i].from : i \in DOMAIN f.txs} \ ({"coinbase", "unknown"} \cup checkedAddrs)
            added == Emitted("dormant_activation", Severities)
        IN  /\ Cardinality(added) <= 10
            /\ Cardinality(added) <= Cardinality(fresh)
      ]_vars

\* One scan fetched two deposits of the sender a1 and has added two
\* dormant_activation alerts.
C33_Witness ==
    /\ scanned.n = 1
    /\ Len(scanned.f.txs) = 2
    /\ scanned.f.txs[1].from = scanned.f.txs[2].from
    /\ Cardinality({i \in DOMAIN alerts : alerts[i].category = "dormant_activation"}) = 2
    /\ checkedAddrs = {"a1"}
    /\ rules["dormant_activation"].triggerCount = 2

(***************************************************************************)
(* The baseline of rule 4 over three scans                                 *)
(***************************************************************************)

\* What fetchTopHolders can return: no holder, h1 and h2, h1 and h3.
WhaleFetches ==
    { [txs |-> <<>>, changePercent24h |-> 0, fastest |-> 10, holders |-> h,
       dormancy |-> [a \in {"a1", "a2"} |-> 0]] :
      h \in { <<>>, <<Holder("h1", 5000), Holder("h2", 4000)>>,
              <<Holder("h1", 5000), Holder("h3", 3000)>> } }

WhaleScanDone ==
    /\ \E sc \in scans, f \in WhaleFetches : scanDone(sc, f, TRUE)
    /\ UNCHANGED <<now, predVars, confVars, monitorMounted, nextScanAt, nextPass,
                   mounted, generating, genPasses, polls, nextGenAt, mountHist, countdown, dataRef,
                   lastPoll, lastGen>>

WhaleInit ==
    /\ now = 0
    /\ PredInit({NoItem})
    /\ AlertInit({NoItem})
    /\ ConfIdle
    /\ PanelIdle
    /\ ScanIdle

WhaleMount == nextPass <= MaxWhaleScans /\ MountMonitor
WhaleTimer == nextPass <= MaxWhaleScans /\ ScanTimer
WhaleManual == nextPass <= MaxWhaleScans /\ ScanManual

WhaleNext == TickPeriod \/ WhaleMount \/ WhaleTimer \/ WhaleManual \/ WhaleScanDone

SpecWhales == WhaleInit /\ [][WhaleNext]_vars

AddressesOf(holders) == {holders[i].address : i \in DOMAIN holders}

\* C34: a scan that fetched no holder adds no new-whale alert and leaves the
\* baseline as it was; the baseline is the list of the last scan that
\* fetched holders; and a scan adds no alert for a holder whose address is
\* in the baseline.
C34_EmptyListKeepsBaseline ==
    /\ [](scanned.n > 0 /\ scanned.f.holders # <<>> => prevHolders = AddressesOf(scanned.f.holders))
    /\ [][ScanCompletes =>
            LET f == scanned'.f
                c == "new_whale_top100"
            IN  /\ f.holders = <<>> =>
                     /\ Emitted(c, Severities) = {}
                     /\ prevHolders' = prevHolders
                /\ \A i \in DOMAIN f.holders :
                      f.holders[i].address \in prevHolders =>
                          \A j \in Emitted(c, Severities) :
                              alerts'[j].data # Num(f.holders[i].balance)
                /\ Cardinality(Emitted(c, Severities))
                      <= Cardinality(AddressesOf(f.holders) \ prevHolders)
          ]_vars

\* The third scan fetched no holder: the baseline is still the list of an
\* earlier scan, and the one new-whale alert of the run is that for h3, which
\* entered a list that followed one with h1 and h2.
C34_Witness ==
    /\ scanned.n = 3
    /\ scans = {}
    /\ scanned.f.holders = <<>>
    /\ prevHolders = {"h1", "h3"}
    /\ Cardinality({i \in DOMAIN alerts : alerts[i].category = "new_whale_top100"}) = 1
    /\ \E i \in DOMAIN alerts : /\ alerts[i].category = "new_whale_top100"
                                /\ alerts[i].data = Num(3000)

(***************************************************************************)
(* getAccuracy over the lists an earlier session saved                     *)
(***************************************************************************)

\* Predictions of earlier sessions, the most recent first: an open price
\* prediction; a price prediction resolved right and a tx_volume prediction
\* resolved right, ten minutes old; a price prediction resolved right, 24
\* hours old to the second; a price prediction resolved wrong, 25 hours old.
PastPredictions ==
    LET made(uid, target, createdAt) ==
            NewPrediction(uid, target, createdAt, PredictionSeconds, target, "5m", "up", 100, 2000, 50)
        closed(p, actualValue) == resolveOne(p, p.id, actualValue)
    IN  << made(0, "price", -300),
           closed(made(-1, "price", -600), 103),
           closed(made(-2, "tx_volume", -600), 101),
           closed(made(-3, "price", -86400), 102),
           closed(made(-4, "price", -90000), 98) >>

\* The lists a session can find saved: any of these predictions, in the order
\* addPrediction leaves them in.
SavedLists ==
    { SelectSeq(PastPredictions, LAMBDA p : p.uid \in S) : S \in SUBSET {-4, -3, -2, -1, 0} }

AccuracyInit ==
    /\ now = 0
    /\ PredInit({savePredictionsText(list) : list \in SavedLists})
    /\ AlertInit({NoItem})
    /\ ConfIdle
    /\ PanelIdle
    /\ ScanIdle

\* getAccuracy(t) of the App-level hook is called and returns.
AccuracyCall ==
    /\ \E t \in Targets : cAccuracy' = getAccuracy(predictions["app"], t)
    /\ UNCHANGED <<now, predVars, alertVars, panelVars, cSignals, cBase, cHist, cResult, cAdjusted,
                   cExplained, cIndicator, prices, exchangeNetflow, scanVars>>

AccuracyNext == TickSecond \/ HookResolve \/ AccuracyCall

SpecAccuracy == AccuracyInit /\ [][AccuracyNext]_vars

RECURSIVE ErrorSum(_, _)
\* The sum of the errors of the predictions of a list at the places in R.
ErrorSum(list, R) ==
    IF R = {} THEN 0
    ELSE LET i == CHOOSE x \in R : TRUE
         IN  list[i].error.v + ErrorSum(list, R \ {i})

\* q is x / y cut to a whole number, and 0 when y is 0.
IsQuotient(q, x, y) == IF y = 0 THEN q = 0 ELSE q * y <= x /\ x < (q + 1) * y

\* C35: what getAccuracy returns for a target counts the resolved
\* predictions of the target and those of them that are accurate; its
\* accuracy is the second count over the first as a percentage, its avgError
\* the mean of their errors, its last24hAccuracy the same percentage over
\* those created less than 24 hours ago; each is 0 when it has nothing to
\* divide by, and the accurate ones are never more than the resolved ones.
C35_AccuracyCounts ==
    [][cAccuracy' # cAccuracy =>
        LET list == predictions["app"]
            a == cAccuracy'
            R == {i \in DOMAIN list : list[i].target = a.target /\ list[i].resolved}
            C == {i \in R : list[i].accurate = Bool(TRUE)}
            D == {i \in R : now - list[i].createdAt < 86400}
        IN  /\ a.totalPredictions = Cardinality(R)
            /\ a.correctPredictions = Cardinality(C)
            /\ a.correctPredictions <= a.totalPredictions
            /\ IsQuotient(a.accuracy, 100000 * Cardinality(C), Cardinality(R))
            /\ IsQuotient(a.avgError, ErrorSum(list, R), Cardinality(R))
            /\ IsQuotient(a.last24hAccuracy, 100000 * Cardinality(C \cap D), Cardinality(D))
      ]_vars

\* getAccuracy has returned for the price predictions of a list of which two
\* are resolved right and one wrong, one of the right ones and the wrong one
\* 24 hours old or older: 2 of 3 over all, 1 of 1 over the last 24 hours.
C35_Witness ==
    /\ cAccuracy.target = "price"
    /\ cAccuracy.totalPredictions = 3
    /\ cAccuracy.correctPredictions = 2
    /\ cAccuracy.accuracy = 66666
    /\ cAccuracy.last24hAccuracy = 100000
    /\ cAccuracy.avgError = 1666
    /\ Len(predictions["app"]) = 5

(***************************************************************************)
(* A TimeframeCard (src/src/components/MultiTimeframePrediction.tsx): the  *)
(* card of the 20-minute timeframe, on its own hook "tf".                  *)
(***************************************************************************)
CardSeconds == 1200

\* `acc ? acc.accuracy : 50` of generate: getAccuracy('price') returns one
\* entry for the target, so acc is always there.
cardHistAcc(list) ==
    LET histAcc == <<getAccuracy(list, "price")>>
    IN  IF Len(histAcc) > 0 THEN histAcc[1].accuracy ELSE 50000

\* A prediction as a card of the given timeframe builds it.
CardPrediction(uid, key, seconds, createdAt, direction, currentValue, change, confidence) ==
    NewPrediction(uid, "price-" \o key, createdAt, seconds, "price", key, direction,
                  currentValue, change, confidence)

\* What an earlier session left: nothing; an open prediction of this card due
\* in 900 seconds; a price prediction resolved right; an open prediction of
\* this card due now, saved after one of the 1-week card made in the same
\* second.
CardSaved ==
    { <<>>,
      << CardPrediction(0, "20m", CardSeconds, -300, "up", 100, 2000, 50) >>,
      << PastPredictions[2] >>,
      << CardPrediction(0, "20m", CardSeconds, -1200, "up", 100, 2000, 50),
         CardPrediction(-1, "1w", 604800, -1200, "up", 100, 2000, 50) >> }

\* What the three fetches of generate return: all fail; a price and 9 points;
\* a price, 30 points and the flows.
CardFetches ==
    { [history |-> Caught(<<>>), price |-> Caught(0), netflow |-> Caught(0)],
      [history |-> Got(Series(100, 9, 0, 1)), price |-> Got(101), netflow |-> Got(1)],
      [history |-> Got(Series(100, 30, 0, 1)), price |-> Got(101), netflow |-> Got(1)] }

\* predictPrice(prices, netflow) of generate on what was fetched.
CardResults == [f \in CardFetches |-> predictPrice(f.history.v, f.netflow.v)]

\* The card mounts: its hook loads the item, and the mount effect restores
\* the countdown of the latest unresolved prediction or calls generate.
MountCard ==
    LET loaded == loadPredictions(storage)
        active == SelectSeq(loaded, LAMBDA q : ~q.resolved)
        remaining == active[1].targetTime - now
    IN  /\ ~mounted["tf"]
        /\ nextPass <= MaxPasses
        /\ mounted' = [mounted EXCEPT !["tf"] = TRUE]
        /\ predictions' = [predictions EXCEPT !["tf"] = loaded]
        /\ nextGenAt' = [nextGenAt EXCEPT !["tf"] = now + CardSeconds]
        /\ mountHist' = [mountHist EXCEPT !["tf"] = [t \in Targets |-> cardHistAcc(loaded)]]
        /\ IF active # <<>> /\ remaining > 0
           THEN /\ countdown' = [countdown EXCEPT !["tf"] = remaining]
                /\ UNCHANGED <<generating, genPasses, nextPass>>
           ELSE /\ startPass("tf", [t \in Targets |-> cardHistAcc(loaded)])
                /\ UNCHANGED countdown
        /\ UNCHANGED <<now, storage, nextUid, alertVars, confVars, polls, dataRef, lastPoll, lastGen, scanVars>>

\* The interval fires generate of the mount-time closure.
CardTimer ==
    /\ mounted["tf"]
    /\ now >= nextGenAt["tf"]
    /\ nextPass <= MaxPasses
    /\ nextGenAt' = [nextGenAt EXCEPT !["tf"] = @ + CardSeconds]
    /\ startPass("tf", mountHist["tf"])
    /\ UNCHANGED <<now, predVars, alertVars, confVars, mounted, polls, mountHist, countdown, dataRef, lastPoll, lastGen, scanVars>>

\* The button calls generate of the current render.
CardManual ==
    /\ mounted["tf"]
    /\ ~generating["tf"]
    /\ nextPass <= MaxPasses
    /\ startPass("tf", [t \in Targets |-> cardHistAcc(predictions["tf"])])
    /\ UNCHANGED <<now, predVars, alertVars, confVars, mounted, polls, nextGenAt, mountHist, countdown, dataRef, lastPoll, lastGen, scanVars>>

\* The fetches of a pass return and generate runs to its end.
CardGenDone ==
    \E g \in {x \in genPasses : x.panel = "tf"} :
    \E f \in CardFetches :
    LET currentPrice == f.price.v
        result == CardResults[f]
        conf == adjustConfidence(Num(result.confidence), Num(g.hist["price"])).v
        pred == CardPrediction(nextUid, "20m", CardSeconds, now, result.direction,
                               currentPrice, result.change, conf)
    IN  /\ IF currentPrice = 0 \/ Len(f.history.v) < 10
           THEN UNCHANGED <<predictions, storage, nextUid, countdown>>
           ELSE /\ \E saved \in BOOLEAN : addPrediction("tf", pred, saved)
                /\ nextUid' = nextUid + 1
                /\ countdown' = [countdown EXCEPT !["tf"] = CardSeconds]
        /\ generating' = [generating EXCEPT !["tf"] = FALSE]
        /\ genPasses' = genPasses \ {g}
        /\ lastGen' = [n |-> g.n, panel |-> "tf", f |-> f]
        /\ UNCHANGED <<now, alertVars, confVars, mounted, polls, nextPass, nextGenAt, mountHist, dataRef, lastPoll, scanVars>>

CardPollStart == PollStart("tf")

\* fetchCurrentPrice of a poll returns and resolveExpired runs to its end.
CardPollDone ==
    \E q \in {x \in polls : x.panel = "tf"} :
    \E price \in {Caught(0), Got(103)} :
    LET value == [t \in AllTargets |-> price.v]
        calls == ResolveCalls(q.expired, value, {t \in AllTargets : price.v > 0})
        lists == ResolvedLists(predictions["tf"], calls)
    IN  /\ \E saved \in BOOLEAN : applyUpdates("tf", lists, saved)
        /\ polls' = polls \ {q}
        /\ lastPoll' = [n |-> q.n, panel |-> "tf", expired |-> q.expired,
                        ok |-> [t \in AllTargets |-> price.ok], value |-> value]
        /\ UNCHANGED <<now, nextUid, alertVars, confVars, mounted, generating, genPasses, nextPass, nextGenAt, mountHist, countdown, dataRef, lastGen, scanVars>>

\* The period of the card passes.
TickCard ==
    /\ now \div CardSeconds < MaxPeriods
    /\ now' = now + CardSeconds
    /\ countdown' = [p \in Hooks |->
                        IF mounted[p] THEN Max(0, countdown[p] - CardSeconds) ELSE countdown[p]]
    /\ UNCHANGED <<predVars, alertVars, confVars, mounted, generating, genPasses, polls, nextPass, nextGenAt, mountHist, dataRef, lastPoll, lastGen, scanVars>>

CardInit ==
    /\ now = 0
    /\ PredInit({IF list = <<>> THEN NoItem ELSE savePredictionsText(list) : list \in CardSaved})
    /\ AlertInit({NoItem})
    /\ ConfIdle
    /\ PanelIdle
    /\ ScanIdle

CardNext ==
    \/ TickSecond \/ TickCard
    \/ MountCard \/ CardTimer \/ CardManual \/ CardGenDone
    \/ CardPollStart \/ CardPollDone

SpecCard == CardInit /\ [][CardNext]_vars

\* A pass of the card completes and saves a prediction.
CardGenAdds == lastGen'.n # lastGen.n /\ lastGen'.panel = "tf" /\ nextUid' # nextUid

\* C36: a generation of a slot that has no resolved prediction stores the
\* confidence that adjustConfidence gives for the historical accuracy 50:
\* three quarters of the base confidence, rounded and kept within 15..85.
C36_NeutralDefault ==
    [][(CardGenAdds /\ getAccuracy(predictions["tf"], "price").totalPredictions = 0) =>
        LET base == CardResults[lastGen'.f].confidence
        IN  predictions'["tf"][1].confidence = Min(85, Max(15, RoundDiv(base * 3, 4)))
      ]_vars

\* The card has generated with nothing resolved from a history of 30 points
\* whose base confidence is above 30, and stored half of it.
C36_Witness ==
    /\ lastGen.panel = "tf"
    /\ Len(lastGen.f.history.v) = 30
    /\ predictions["tf"] # <<>>
    /\ getAccuracy(predictions["tf"], "price").totalPredictions = 0
    /\ predictions["tf"][1].createdAt = now
    /\ predictions["tf"][1].confidence
         = RoundDiv(CardResults[lastGen.f].confidence, 2)
    /\ predictions["tf"][1].confidence > 15

(***************************************************************************)
(* generateResolutionExplanation beside resolvePrediction, as              *)
(* resolveExpired of the EmbeddedPredictionPanel calls them on an expired  *)
(* prediction.                                                             *)
(***************************************************************************)
\* The reasons a prediction carries: none, an empty array, one of each
\* impact, two bullish and a bearish.
ReasonLists ==
    { [present |-> FALSE, items |-> <<>>],
      [present |-> TRUE, items |-> <<>>],
      [present |-> TRUE, items |-> << [signal |-> "trend", impact |-> "bullish"],
                                      [signal |-> "ratio", impact |-> "bearish"],
                                      [signal |-> "momentum", impact |-> "neutral"] >>],
      [present |-> TRUE, items |-> << [signal |-> "trend", impact |-> "bullish"],
                                      [signal |-> "ratio", impact |-> "bullish"],
                                      [signal |-> "cross", impact |-> "bearish"] >>] }

\* The unresolved predictions the two are called on: each direction, from a
\* value of 0 or 10000, with a predicted change of -0.3, 0 or 2.5 percent.
ExplainedPredictions ==
    { [uid |-> 1, direction |-> d, currentValue |-> cv, predictedChange |-> pc, reasons |-> rs] :
        d \in Directions, cv \in {0, 10000}, pc \in {-300, 0, 2500}, rs \in ReasonLists }

\* The values onResolve returns: falls of 2 and 0.1 percent, no change, rises
\* of 0.05, 0.1, 0.4 and 3 percent.
ExplainedValues == {9800, 9990, 10000, 10005, 10010, 10040, 10300}

\* One turn of the loop of resolveExpired: the explanation is generated and
\* resolvePrediction is called with the same prediction and value.
Explain ==
    /\ \E x \in ExplainedPredictions, actualValue \in ExplainedValues :
         LET p == NewPrediction(x.uid, "holder_trend", now - PredictionSeconds, PredictionSeconds,
                                "holder_trend", "holder_trend", x.direction, x.currentValue,
                                x.predictedChange, 50)
         IN  cExplained' = [called |-> TRUE,
                            prediction |-> x,
                            actualValue |-> actualValue,
                            resolution |-> generateResolutionExplanation(x, actualValue),
                            stored |-> resolveOne(p, p.id, actualValue)]
    /\ UNCHANGED <<now, predVars, alertVars, panelVars, cSignals, cBase, cHist, cResult, cAdjusted,
                   cAccuracy, cIndicator, prices, exchangeNetflow, scanVars>>

ExplainInit ==
    /\ now = 0
    /\ PredInit({NoItem})
    /\ AlertInit({NoItem})
    /\ ConfIdle
    /\ PanelIdle
    /\ ScanIdle

ExplainNext == Explain

SpecExplain == ExplainInit /\ [][ExplainNext]_vars

\* C37: the explanation judges the direction right exactly when
\* resolvePrediction stores accurate = true for the same prediction and
\* value, and its actualChange and error are the ones stored.
C37_SameVerdict ==
    cExplained.called =>
        /\ cExplained.resolution.dirCorrect = (cExplained.stored.accurate = Bool(TRUE))
        /\ cExplained.stored.accurate \in {Bool(TRUE), Bool(FALSE)}
        /\ Num(cExplained.resolution.actualChange) = cExplained.stored.actualChange
        /\ Num(cExplained.resolution.error) = cExplained.stored.error

\* A flat prediction was explained and resolved at a change of exactly 0.1
\* percent: both take it for wrong, with an error of 0.4.
C37_Witness ==
    /\ cExplained.called
    /\ cExplained.prediction.direction = "neutral"
    /\ cExplained.prediction.predictedChange = -300
    /\ cExplained.resolution.actualChange = 100
    /\ ~cExplained.resolution.dirCorrect
    /\ cExplained.stored.resolved
    /\ cExplained.stored.error = Num(400)

\* The impacts of the reasons at the places of a list.
ImpactsAt(x, places) == {x.reasons.items[places[i]].impact : i \in DOMAIN places}

\* C38: no reason is both confirmed and contradicted; after a rise the
\* confirmed reasons are the bullish ones and the contradicted the bearish
\* ones, after a fall the other way round, and after no change the neutral
\* reasons are confirmed and none is contradicted.
C38_ConfirmedAndContradicted ==
    cExplained.called =>
        LET x == cExplained.prediction
            r == cExplained.resolution
            places(impact) == {i \in DOMAIN x.reasons.items : x.reasons.items[i].impact = impact}
            confirmed == {r.confirmed[i] : i \in DOMAIN r.confirmed}
            contradicted == {r.contradicted[i] : i \in DOMAIN r.contradicted}
        IN  /\ confirmed \cap contradicted = {}
            /\ r.actualChange > 0 => confirmed = places("bullish") /\ contradicted = places("bearish")
            /\ r.actualChange < 0 => confirmed = places("bearish") /\ contradicted = places("bullish")
            /\ r.actualChange = 0 => confirmed = places("neutral") /\ contradicted = {}

\* A prediction with two bullish reasons and a bearish one was explained
\* after no change at all: nothing is confirmed and nothing contradicted.
C38_Witness ==
    /\ cExplained.called
    /\ cExplained.prediction.currentValue = 10000
    /\ cExplained.resolution.actualChange = 0
    /\ Len(cExplained.prediction.reasons.items) = 3
    /\ ImpactsAt(cExplained.prediction, <<1, 2, 3>>) = {"bullish", "bearish"}
    /\ cExplained.resolution.confirmed = <<>>
    /\ cExplained.resolution.contradicted = <<>>

(***************************************************************************)
(* The mount of a panel and its countdown.                                 *)
(***************************************************************************)
\* The unresolved predictions of a list that are not yet due.
StillRunning(list) == {i \in DOMAIN list : ~list[i].resolved /\ list[i].targetTime > now}

\* C39: a panel that mounts starts a generation exactly when the stored list
\* has no unresolved prediction that is not yet due; otherwise it starts
\* none and sets its countdown to the time that prediction has left.  The
\* countdown then goes down by one with every second and never below 0.
C39_MountResumesCountdown ==
    /\ [](\A p \in Hooks : countdown[p] >= 0)
    /\ [][\A p \in {"tf", "emb"} :
            LET list == loadPredictions(storage)
            IN  /\ (mounted'[p] /\ ~mounted[p]) =>
                     /\ (nextPass' # nextPass) <=> (StillRunning(list) = {})
                     /\ StillRunning(list) # {} =>
                          \E i \in StillRunning(list) : countdown'[p] = list[i].targetTime - now
                /\ (mounted[p] /\ now' = now + 1) => countdown'[p] = Max(0, countdown[p] - 1)
        ]_vars

\* The card has mounted on a list whose latest unresolved prediction is due
\* and whose next one has a week less 20 minutes left, and is generating.
C39_Witness ==
    /\ mounted["tf"]
    /\ generating["tf"]
    /\ now = 0
    /\ lastGen = NoGen
    /\ Len(predictions["tf"]) = 2
    /\ predictions["tf"][1].targetTime = 0
    /\ StillRunning(predictions["tf"]) = {2}

(***************************************************************************)
(* calcSMA and calcEMA applied to drawn series.                            *)
(***************************************************************************)
\* The series the two are called on: every series of 100s and 101s up to
\* the length MaxSeriesLen, the empty one included; periods 1, 2, 3 and 5.
IndicatorSeries == UNION { [1..n -> {100, 101}] : n \in 0..MaxSeriesLen }

IndicatorPeriods == {1, 2, 3, 5}

IndicatorInit ==
    /\ now = 0
    /\ PredInit({NoItem})
    /\ AlertInit({NoItem})
    /\ cSignals = <<>>
    /\ cBase = Undefined
    /\ cHist = Undefined
    /\ cResult = NoResult
    /\ cAdjusted = Undefined
    /\ cAccuracy = NoAccuracy
    /\ cExplained = NoExplained
    /\ cIndicator = NoIndicator
    /\ prices \in IndicatorSeries
    /\ exchangeNetflow = 0
    /\ PanelIdle
    /\ ScanIdle

\* calcSMA(prices, period) is called and returns.
CalcSMA ==
    /\ \E period \in IndicatorPeriods :
         cIndicator' = [called |-> TRUE, fn |-> "calcSMA", period |-> period,
                        out |-> calcSMA(prices, period)]
    /\ UNCHANGED <<now, predVars, alertVars, panelVars, cSignals, cBase, cHist, cResult, cAdjusted,
                   cAccuracy, cExplained, prices, exchangeNetflow, scanVars>>

\* calcEMA(prices, period) is called and returns.
CalcEMA ==
    /\ \E period \in IndicatorPeriods :
         cIndicator' = [called |-> TRUE, fn |-> "calcEMA", period |-> period,
                        out |-> calcEMA([i \in 1..Len(prices) |-> Rat(prices[i], 1)], period)]
    /\ UNCHANGED <<now, predVars, alertVars, panelVars, cSignals, cBase, cHist, cResult, cAdjusted,
                   cAccuracy, cExplained, prices, exchangeNetflow, scanVars>>

IndicatorNext == CalcSMA \/ CalcEMA

SpecIndicators == IndicatorInit /\ [][IndicatorNext]_vars

\* C40: calcSMA and calcEMA return as many values as the series has, the
\* empty series included; calcSMA returns NaN at the places below
\* period - 1 and nowhere else, calcEMA returns a number at every place, the
\* first input value at the first.
C40_SameLength ==
    cIndicator.called =>
        LET out == cIndicator.out
        IN  /\ Len(out) = Len(prices)
            /\ cIndicator.fn = "calcSMA" =>
                 \A i \in DOMAIN out : isNaN(out[i]) <=> (i - 1 < cIndicator.period - 1)
            /\ cIndicator.fn = "calcEMA" =>
                 /\ \A i \in DOMAIN out : out[i].d > 0
                 /\ prices # <<>> => out[1] = Rat(prices[1], 1)

\* calcEMA was called on the empty series and returned one value, undefined.
C40_Witness ==
    /\ cIndicator.called
    /\ cIndicator.fn = "calcEMA"
    /\ prices = <<>>
    /\ cIndicator.out = <<UndefinedRat>>

====
